---- MODULE Spec2Model ----
(***************************************************************************)
(* Advantech AHC1EC0 embedded-controller MFD driver                        *)
(* (drivers/mfd/ahc1ec0.c): the handshake waits, the HW-RAM accessors, the *)
(* indexed protocols, the SMBus pass-through, the dynamic table            *)
(* enumeration and the global mutex "lock", as a state machine of callers  *)
(* that each execute one driver function at a time, one port access or one *)
(* mutex operation per step.                                               *)
(***************************************************************************)
EXTENDS Integers, Sequences, FiniteSets, TLC

(***************************************************************************)
(* Bounds of the model.  The header linux/mfd/ahc1ec0.h that sets the      *)
(* retry budgets and the table capacity is not part of the sources at      *)
(* hand; the loops are modelled with the budgets scaled down.              *)
(***************************************************************************)
\* number of concurrent callers of the concurrent specification
NumCallers == 2
\* polls of one wait_ibf / wait_obf (for (i = 0; i < EC_MAX_TIMEOUT_COUNT; i++))
EC_MAX_TIMEOUT_COUNT == 2
\* capacity of pdata->dym_tbl
EC_MAX_TBL_NUM == 2
\* initial value of "retry" in wait_smbus_protocol_finish (1000 in the source)
SMBUS_RETRY == 1

\* errno values used by the driver
ETIMEDOUT == 110
EINVAL == 22
ENOMEM == 12
ENXIO == 6
ENODATA == 61

(***************************************************************************)
(* Opcodes and cell addresses.  Their byte values are set by the missing   *)
(* header; no property below depends on the value, only on which symbol is *)
(* sent, so each symbol is a distinct code outside the byte range.         *)
(***************************************************************************)
EC_HW_RAM_READ == 256 + 1
EC_HW_RAM_WRITE == 256 + 2
EC_HW_EXTEND_RAM_WRITE == 256 + 3
EC_AD_INDEX_WRITE == 256 + 4
EC_AD_LSB_READ == 256 + 5
EC_AD_MSB_READ == 256 + 6
EC_ACPI_RAM_READ == 256 + 7
EC_ACPI_DATA_WRITE == 256 + 8
EC_GPIO_INDEX_WRITE == 256 + 9
EC_GPIO_STATUS_READ == 256 + 10
EC_GPIO_STATUS_WRITE == 256 + 11
EC_GPIO_DIR_READ == 256 + 12
EC_GPIO_DIR_WRITE == 256 + 13
EC_TBL_WRITE_ITEM == 256 + 14
EC_TBL_GET_PIN == 256 + 15
EC_TBL_GET_DEVID == 256 + 16
EC_ONE_KEY_FLAG == 256 + 17
EC_ASG_OEM == 256 + 18
EC_ASG_OEM_READ == 256 + 19
EC_ASG_OEM_WRITE == 256 + 20
EC_SMBUS_CHANNEL == 256 + 21
EC_SMBUS_SLV_ADDR == 256 + 22
EC_SMBUS_CMD == 256 + 23
EC_SMBUS_DATA == 256 + 24
EC_SMBUS_PROTOCOL == 256 + 25
EC_SMBUS_STATUS == 256 + 26
SMBUS_BYTE_READ == 256 + 27
SMBUS_BYTE_WRITE == 256 + 28
SMBUS_WORD_READ == 256 + 29
EC_SMBUS_DAT_OFFSET(n) == 256 + 30 + n

\* the two ports
EC_COMMAND_PORT == "EC_COMMAND_PORT"
EC_STATUS_PORT == "EC_STATUS_PORT"

(***************************************************************************)
(* State.                                                                  *)
(*   env     the scenario: the callers that exist, the kind of controller  *)
(*           behind the ports and the operations the callers use           *)
(*   lock    struct mutex lock: 0 when free, else the owning caller        *)
(*   cs      per caller: the function it executes, its position, its       *)
(*           arguments and locals, and the observation fields used by the  *)
(*           properties                                                    *)
(*   ecs     the simulated controller's command decoder, RAM and output    *)
(*           buffer                                                        *)
(*   dym_tbl pdata->dym_tbl                                                *)
(***************************************************************************)
VARIABLES env, lock, cs, ecs, dym_tbl

vars == <<env, lock, cs, ecs, dym_tbl>>

AllCallers == 1..NumCallers

\* status bytes of the command port: bit 0 is OBF, bit 1 is IBF
StatusBytes == {0, 1, 2, 3}

IBF(st) == (st \div 2) % 2
OBF(st) == st % 2

\* observation of the wait in progress or just finished: its kind, the polls
\* made, the polls that saw the wrong bit, the last status byte, whether it
\* has returned and with what, and the caller's port writes when it began
NoWait == [k |-> "none", n |-> 0, bad |-> 0, st |-> 0, fin |-> FALSE, r |-> 0, out0 |-> 0]

\* a sentinel for "no byte"
None == -1

IdleCaller ==
    [fn |-> "idle", op |-> "none", pc |-> "", stk |-> <<>>, i |-> 0, ret |-> 0,
     addr |-> 0, data |-> 0, pv |-> 0, multi |-> 0, LSB |-> 0, MSB |-> 0,
     pin_tmp |-> 0, idx |-> 0, retry |-> 0, sm_ready |-> None, cmd |-> 0,
     req |-> [Channel |-> 0, Address |-> 0, Register |-> 0, Data |-> 0, Value |-> 0],
     w |-> NoWait, nout |-> 0, nin |-> 0, ff |-> FALSE, ffacc |-> FALSE,
     rd |-> <<>>, tr |-> <<>>, ram |-> <<>>, null |-> FALSE,
     in0 |-> [addr |-> 0, data |-> 0, pv |-> 0],
     h |-> [prevT |-> FALSE, wr |-> <<>>]]

(***************************************************************************)
(* The controller behind the two ports.  env.kind = "any" is an arbitrary  *)
(* controller: every status poll and every data byte is unconstrained.     *)
(* env.kind = "sim" is the responsive test double: input buffer always     *)
(* clear, output always ready, HW-RAM writes stored and echoed on HW-RAM   *)
(* reads, any byte for the other replies.                                  *)
(***************************************************************************)
EcIdle == [ph |-> "idle", a |-> 0, ob |-> None]

\* the controller after the driver wrote v to a port
EcOut(e, port, v) ==
    IF env.kind # "sim" THEN e
    ELSE IF port = EC_COMMAND_PORT
    THEN [e EXCEPT !.st = [ph |-> IF v = EC_HW_RAM_READ THEN "rd_addr"
                                  ELSE IF v = EC_HW_RAM_WRITE THEN "wr_addr"
                                  ELSE "idle",
                           a |-> 0, ob |-> None]]
    ELSE IF e.st.ph = "rd_addr"
    THEN [e EXCEPT !.st = [ph |-> "idle", a |-> 0,
                           ob |-> IF v \in DOMAIN e.ram THEN e.ram[v] ELSE None]]
    ELSE IF e.st.ph = "wr_addr"
    THEN [e EXCEPT !.st = [ph |-> "wr_data", a |-> v, ob |-> None]]
    ELSE IF e.st.ph = "wr_data"
    THEN [st |-> EcIdle,
          ram |-> IF e.st.a \in DOMAIN e.ram
                  THEN [e.ram EXCEPT ![e.st.a] = v] ELSE e.ram]
    ELSE e

\* the bytes a read of the data port may return
EcIn(e) ==
    IF env.kind = "sim" /\ e.st.ob # None THEN {e.st.ob} ELSE env.bytes

\* the controller after the driver read the data port
EcTake(e) == [e EXCEPT !.st = EcIdle]

\* the bytes a read of the command (status) port may return
EcStatus == IF env.kind = "sim" THEN {1} ELSE StatusBytes

(***************************************************************************)
(* Handshake primitives: one iteration of the for loop, given the status   *)
(* byte st its inb(EC_COMMAND_PORT) returned and the loop counter i.       *)
(* done: the function returns (with ret); otherwise the loop goes on.      *)
(***************************************************************************)
\* mutation: the budget test lets one more poll through
wait_ibf_extra(i, st) ==
    IF IBF(st) = 0 THEN [done |-> TRUE, ret |-> 0, i |-> i]
    ELSE IF i + 1 <= EC_MAX_TIMEOUT_COUNT THEN [done |-> FALSE, ret |-> 0, i |-> i + 1]
    ELSE [done |-> TRUE, ret |-> -ETIMEDOUT, i |-> i + 1]

wait_ibf(i, st) ==
    IF IBF(st) = 0 THEN [done |-> TRUE, ret |-> 0, i |-> i]
    ELSE IF i + 1 < EC_MAX_TIMEOUT_COUNT THEN [done |-> FALSE, ret |-> 0, i |-> i + 1]
    ELSE [done |-> TRUE, ret |-> -ETIMEDOUT, i |-> i + 1]

\* mutation: the poll counter wraps around instead of ending the loop
wait_obf_forever(i, st) ==
    IF OBF(st) # 0 THEN [done |-> TRUE, ret |-> 0, i |-> i]
    ELSE [done |-> FALSE, ret |-> 0, i |-> (i + 1) % EC_MAX_TIMEOUT_COUNT]

wait_obf(i, st) ==
    IF OBF(st) # 0 THEN [done |-> TRUE, ret |-> 0, i |-> i]
    ELSE IF i + 1 < EC_MAX_TIMEOUT_COUNT THEN [done |-> FALSE, ret |-> 0, i |-> i + 1]
    ELSE [done |-> TRUE, ret |-> -ETIMEDOUT, i |-> i + 1]

(***************************************************************************)
(* struct mutex lock                                                       *)
(***************************************************************************)
mutex_lock(p) == lock = 0 /\ lock' = p

\* mutex_unlock by the owner frees the mutex.  mutex_unlock by a caller that
\* does not own it is undefined: a non-debug build clears the owner field
\* whoever holds it, a debug build may leave it.
mutex_unlock(p) ==
    IF lock = p THEN lock' = 0 ELSE lock' \in {0, lock}

(***************************************************************************)
(* Step shapes shared by the functions.  c is the caller's record.         *)
(***************************************************************************)
\* the observation fields are kept only in the scenarios that observe them
Obs(c) ==
    IF env.observe THEN c
    ELSE [c EXCEPT !.w = NoWait, !.nout = 0, !.nin = 0, !.ff = FALSE,
                   !.ffacc = FALSE, !.rd = <<>>, !.tr = <<>>, !.ram = <<>>,
                   !.sm_ready = None, !.cmd = 0,
                   !.h = IdleCaller.h]

\* an observed port event: a finished wait ("ibf", "obf") with its result, a
\* byte written ("out") or a byte read ("in")
Ev(k, port, v) == [k |-> k, p |-> port, v |-> v]

\* the observation of mutex_lock, and of mutex_unlock by caller p with
\* whether p was the owner
Locked(c) == [c EXCEPT !.tr = Append(@, Ev("lock", "", 0))]

Unlocked(p, c) ==
    [c EXCEPT !.tr = Append(@, Ev("unlock", "", IF lock = p THEN 1 ELSE 0))]

\* caller p's record becomes c
Set(p, c) == cs' = [cs EXCEPT ![p] = Obs(c)]

\* the locals of a returned operation are gone: what is left is its name, its
\* return value, the caller's output variables and the observations
Result(c, v) ==
    [IdleCaller EXCEPT !.fn = "done", !.op = c.op, !.ret = v, !.data = c.data,
                       !.pv = c.pv, !.req = c.req, !.in0 = c.in0, !.multi = c.multi,
                       !.nout = c.nout, !.nin = c.nin, !.ff = c.ff,
                       !.ffacc = c.ffacc, !.rd = c.rd, !.tr = c.tr, !.ram = c.ram,
                       !.null = c.null,
                       !.sm_ready = c.sm_ready,
                       !.h = c.h]

\* "return v": back to the calling function, or the operation is done
Return(c, v) ==
    LET c1 == IF c.fn \in {"read_hw_ram", "write_hw_ram"}
              THEN [c EXCEPT !.ram = Append(@, [f |-> c.fn, a |-> c.addr,
                                                d |-> c.data, r |-> v])]
              ELSE c
    IN  IF c.stk = <<>>
        THEN Result(c1, v)
        ELSE [c1 EXCEPT !.fn = Head(c.stk).fn, !.pc = Head(c.stk).pc,
                        !.stk = Tail(c.stk), !.ret = v, !.w = NoWait]

\* the observation of a poll: kind k, status st seen, result r of the loop body
Polled(c, k, st, r) ==
    LET w0 == IF c.w.k = k /\ ~c.w.fin THEN c.w
              ELSE [NoWait EXCEPT !.k = k, !.out0 = c.nout]
        wrong == IF k = "ibf" THEN IBF(st) # 0 ELSE OBF(st) = 0
    IN  [w0 EXCEPT !.n = @ + 1, !.bad = @ + (IF wrong THEN 1 ELSE 0), !.st = st,
                   !.fin = r.done, !.r = r.ret]

\* mutex_lock(&lock) at label l
Lock(p, l, n) ==
    /\ cs[p].pc = l
    /\ mutex_lock(p)
    /\ Set(p, Locked([cs[p] EXCEPT !.pc = n]))
    /\ UNCHANGED ecs

\* one poll of "ret = wait_ibf(); if (ret) goto error;" at label l
WaitIbf(p, l, ok, err) ==
    /\ cs[p].pc = l
    /\ \E st \in EcStatus :
         LET c == cs[p]
             r == wait_ibf(c.i, st)
         IN  Set(p, [c EXCEPT !.i = IF r.done THEN 0 ELSE r.i,
                                !.ret = IF r.done THEN r.ret ELSE c.ret,
                                !.pc = IF ~r.done THEN l ELSE IF r.ret = 0 THEN ok ELSE err,
                                !.w = Polled(c, "ibf", st, r),
                                !.tr = IF r.done THEN Append(@, Ev("ibf", EC_COMMAND_PORT, r.ret))
                                       ELSE @,
                                !.ffacc = c.ffacc \/ c.ff])
    /\ UNCHANGED <<lock, ecs>>

\* one poll of "ret = wait_obf(); if (ret) goto error;" at label l
WaitObf(p, l, ok, err) ==
    /\ cs[p].pc = l
    /\ \E st \in EcStatus :
         LET c == cs[p]
             r == wait_obf(c.i, st)
         IN  Set(p, [c EXCEPT !.i = IF r.done THEN 0 ELSE r.i,
                                !.ret = IF r.done THEN r.ret ELSE c.ret,
                                !.pc = IF ~r.done THEN l ELSE IF r.ret = 0 THEN ok ELSE err,
                                !.w = Polled(c, "obf", st, r),
                                !.tr = IF r.done THEN Append(@, Ev("obf", EC_COMMAND_PORT, r.ret))
                                       ELSE @,
                                !.ffacc = c.ffacc \/ c.ff])
    /\ UNCHANGED <<lock, ecs>>

\* outb(v, port) at label l
Outb(p, l, v, port, n) ==
    /\ cs[p].pc = l
    /\ ecs' = EcOut(ecs, port, v)
    /\ Set(p, [cs[p] EXCEPT !.pc = n, !.w = NoWait, !.nout = @ + 1,
                           !.cmd = IF port = EC_COMMAND_PORT THEN v ELSE @,
                           !.tr = Append(@, Ev("out", port, v)),
                           !.ffacc = cs[p].ffacc \/ cs[p].ff])
    /\ UNCHANGED lock

\* "f = inb(EC_STATUS_PORT)" at label l, f a local or an output of the caller
Inb(p, l, f, n) ==
    /\ cs[p].pc = l
    /\ \E b \in EcIn(ecs) :
         Set(p, [cs[p] EXCEPT ![f] = b, !.pc = n, !.w = NoWait, !.nin = @ + 1,
                              !.rd = Append(@, [c |-> cs[p].cmd, b |-> b]),
                              !.tr = Append(@, Ev("in", EC_STATUS_PORT, b)),
                              !.ffacc = cs[p].ffacc \/ cs[p].ff])
    /\ ecs' = EcTake(ecs)
    /\ UNCHANGED lock

\* mutation: the refused index is not acted upon
InbIndex_continue(p, l, n, inval) ==
    /\ cs[p].pc = l
    /\ \E b \in EcIn(ecs) :
         Set(p, [cs[p] EXCEPT !.pc = n,
                              !.w = NoWait, !.nin = @ + 1,
                              !.rd = Append(@, [c |-> cs[p].cmd, b |-> b]),
                              !.tr = Append(@, Ev("in", EC_STATUS_PORT, b)),
                              !.ffacc = cs[p].ffacc \/ cs[p].ff,
                              !.ff = (b = 255)])
    /\ ecs' = EcTake(ecs)
    /\ UNCHANGED lock

\* "if (inb(EC_STATUS_PORT) == 0xff) { mutex_unlock(&lock); return v; }" at
\* label l: the read and the branch; the unlock and return are label inval
InbIndex(p, l, n, inval) ==
    /\ cs[p].pc = l
    /\ \E b \in EcIn(ecs) :
         Set(p, [cs[p] EXCEPT !.pc = IF b = 255 THEN inval ELSE n,
                              !.w = NoWait, !.nin = @ + 1, !.rd = Append(@, [c |-> cs[p].cmd, b |-> b]),
                              !.tr = Append(@, Ev("in", EC_STATUS_PORT, b)),
                              !.ffacc = cs[p].ffacc \/ cs[p].ff,
                              !.ff = (b = 255)])
    /\ ecs' = EcTake(ecs)
    /\ UNCHANGED lock

\* "mutex_unlock(&lock); return v;" at label l
UnlockReturn(p, l, v) ==
    /\ cs[p].pc = l
    /\ mutex_unlock(p)
    /\ Set(p, Return(Unlocked(p, cs[p]), v))
    /\ UNCHANGED ecs

(***************************************************************************)
(* HW-RAM accessors                                                        *)
(***************************************************************************)
\* mutation: the error path clears the caller's output byte
read_hw_ram_clear(p) ==
    /\ cs[p].fn = "read_hw_ram"
    /\ \/ Lock(p, "lock", "w0")
       \/ WaitIbf(p, "w0", "s1", "error")
       \/ Outb(p, "s1", EC_HW_RAM_READ, EC_COMMAND_PORT, "w2")
       \/ WaitIbf(p, "w2", "s3", "error")
       \/ Outb(p, "s3", cs[p].addr, EC_STATUS_PORT, "w4")
       \/ WaitObf(p, "w4", "s5", "error")
       \/ Inb(p, "s5", "data", "unlock")
       \/ UnlockReturn(p, "unlock", cs[p].ret)
       \/ /\ cs[p].pc = "error"
          /\ mutex_unlock(p)
          /\ Set(p, Return(Unlocked(p, [cs[p] EXCEPT !.data = 0]), cs[p].ret))
          /\ UNCHANGED ecs

read_hw_ram(p) ==
    /\ cs[p].fn = "read_hw_ram"
    /\ \/ Lock(p, "lock", "w0")
       \/ WaitIbf(p, "w0", "s1", "error")
       \/ Outb(p, "s1", EC_HW_RAM_READ, EC_COMMAND_PORT, "w2")
       \/ WaitIbf(p, "w2", "s3", "error")
       \/ Outb(p, "s3", cs[p].addr, EC_STATUS_PORT, "w4")
       \/ WaitObf(p, "w4", "s5", "error")
       \/ Inb(p, "s5", "data", "unlock")
       \/ UnlockReturn(p, "unlock", cs[p].ret)
       \/ UnlockReturn(p, "error", cs[p].ret)

\* mutation: the data byte is sent before the address
write_hw_ram_swapped(p) ==
    /\ cs[p].fn = "write_hw_ram"
    /\ \/ Lock(p, "lock", "w0")
       \/ WaitIbf(p, "w0", "s1", "error")
       \/ Outb(p, "s1", EC_HW_RAM_WRITE, EC_COMMAND_PORT, "w2")
       \/ WaitIbf(p, "w2", "s3", "error")
       \/ Outb(p, "s3", cs[p].data, EC_STATUS_PORT, "w4")
       \/ WaitIbf(p, "w4", "s5", "error")
       \/ Outb(p, "s5", cs[p].addr, EC_STATUS_PORT, "unlock")
       \/ UnlockReturn(p, "unlock", 0)
       \/ UnlockReturn(p, "error", cs[p].ret)

write_hw_ram(p) ==
    /\ cs[p].fn = "write_hw_ram"
    /\ \/ Lock(p, "lock", "w0")
       \/ WaitIbf(p, "w0", "s1", "error")
       \/ Outb(p, "s1", EC_HW_RAM_WRITE, EC_COMMAND_PORT, "w2")
       \/ WaitIbf(p, "w2", "s3", "error")
       \/ Outb(p, "s3", cs[p].addr, EC_STATUS_PORT, "w4")
       \/ WaitIbf(p, "w4", "s5", "error")
       \/ Outb(p, "s5", cs[p].data, EC_STATUS_PORT, "unlock")
       \/ UnlockReturn(p, "unlock", 0)
       \/ UnlockReturn(p, "error", cs[p].ret)

write_hw_extend_ram(p) ==
    /\ cs[p].fn = "write_hw_extend_ram"
    /\ \/ Lock(p, "lock", "w0")
       \/ WaitIbf(p, "w0", "s1", "error")
       \/ Outb(p, "s1", EC_HW_EXTEND_RAM_WRITE, EC_COMMAND_PORT, "w2")
       \/ WaitIbf(p, "w2", "s3", "error")
       \/ Outb(p, "s3", cs[p].addr, EC_STATUS_PORT, "w4")
       \/ WaitIbf(p, "w4", "s5", "error")
       \/ Outb(p, "s5", cs[p].data, EC_STATUS_PORT, "unlock")
       \/ UnlockReturn(p, "unlock", 0)
       \/ UnlockReturn(p, "error", cs[p].ret)

write_hwram_command(p) ==
    /\ cs[p].fn = "write_hwram_command"
    /\ \/ Lock(p, "lock", "w0")
       \/ WaitIbf(p, "w0", "s1", "error")
       \/ Outb(p, "s1", cs[p].data, EC_COMMAND_PORT, "unlock")
       \/ UnlockReturn(p, "unlock", 0)
       \/ UnlockReturn(p, "error", cs[p].ret)

(***************************************************************************)
(* Indexed subsystem protocols                                             *)
(***************************************************************************)
\* A u32 is kept as its two 16-bit halves, so that a product that passes
\* 2^32 wraps as the machine's does.  U32(n) is the u32 of 0 <= n < 2^16.
U32(n) == [hi |-> 0, lo |-> n]

\* "x * m" in u32 arithmetic, for a multiplier 0 <= m < 2^15
MulU32(x, m) ==
    LET t == x.lo * m
    IN  [hi |-> (x.hi * m + t \div 65536) % 65536, lo |-> t % 65536]

\* "return ret_val;" from a function returning int: the conversion of a u32
\* to a 32-bit two's complement int
ToInt(x) ==
    IF x.hi >= 32768 THEN (x.hi - 65536) * 65536 + x.lo ELSE x.hi * 65536 + x.lo

\* "((MSB << 8) | LSB) & 0x03FF" for two bytes
Sample10(MSB, LSB) == (MSB * 256 + LSB) % 1024

\* "ret_val = ret_val * multi * 100; ... return ret_val;" for a u32 ret_val
\* below 2^16 and a byte multiplier
Scaled(v, multi) == ToInt(MulU32(MulU32(U32(v), multi), 100))

\* "ret_val = ((MSB << 8) | LSB) & 0x03FF; ret_val = ret_val * multi * 100;"
\* for two bytes and a byte multiplier, and the value returned as int
\* mutation: the two bytes combined the other way round
AdValue_swapped(MSB, LSB, multi) == Scaled(Sample10(LSB, MSB), multi)

\* mutation: a scale of 10000 instead of 100
AdValue_scaled(MSB, LSB, multi) ==
    ToInt(MulU32(MulU32(U32(Sample10(MSB, LSB)), multi), 10000))

AdValue(MSB, LSB, multi) == Scaled(Sample10(MSB, LSB), multi)

read_ad_value(p) ==
    /\ cs[p].fn = "read_ad_value"
    /\ \/ Lock(p, "lock", "w0")
       \/ WaitIbf(p, "w0", "s1", "error")
       \/ Outb(p, "s1", EC_AD_INDEX_WRITE, EC_COMMAND_PORT, "w2")
       \/ WaitIbf(p, "w2", "s3", "error")
       \/ Outb(p, "s3", cs[p].addr, EC_STATUS_PORT, "w4")
       \/ WaitObf(p, "w4", "s5", "error")
       \/ InbIndex(p, "s5", "w6", "inval")
       \/ UnlockReturn(p, "inval", -1)
       \/ WaitIbf(p, "w6", "s7", "error")
       \/ Outb(p, "s7", EC_AD_LSB_READ, EC_COMMAND_PORT, "w8")
       \/ WaitObf(p, "w8", "s9", "error")
       \/ Inb(p, "s9", "LSB", "w10")
       \/ WaitIbf(p, "w10", "s11", "error")
       \/ Outb(p, "s11", EC_AD_MSB_READ, EC_COMMAND_PORT, "w12")
       \/ WaitObf(p, "w12", "s13", "error")
       \/ Inb(p, "s13", "MSB", "unlock")
       \/ UnlockReturn(p, "unlock", AdValue(cs[p].MSB, cs[p].LSB, cs[p].multi))
       \/ UnlockReturn(p, "error", cs[p].ret)

\* mutation: the error path returns without mutex_unlock
read_acpi_value_leak(p) ==
    /\ cs[p].fn = "read_acpi_value"
    /\ \/ Lock(p, "lock", "w0")
       \/ WaitIbf(p, "w0", "s1", "error")
       \/ Outb(p, "s1", EC_ACPI_RAM_READ, EC_COMMAND_PORT, "w2")
       \/ WaitIbf(p, "w2", "s3", "error")
       \/ Outb(p, "s3", cs[p].addr, EC_STATUS_PORT, "w4")
       \/ WaitObf(p, "w4", "s5", "error")
       \/ Inb(p, "s5", "pv", "unlock")
       \/ UnlockReturn(p, "unlock", 0)
       \/ /\ cs[p].pc = "error"
          /\ Set(p, Return(cs[p], cs[p].ret))
          /\ UNCHANGED <<lock, ecs>>

read_acpi_value(p) ==
    /\ cs[p].fn = "read_acpi_value"
    /\ \/ Lock(p, "lock", "w0")
       \/ WaitIbf(p, "w0", "s1", "error")
       \/ Outb(p, "s1", EC_ACPI_RAM_READ, EC_COMMAND_PORT, "w2")
       \/ WaitIbf(p, "w2", "s3", "error")
       \/ Outb(p, "s3", cs[p].addr, EC_STATUS_PORT, "w4")
       \/ WaitObf(p, "w4", "s5", "error")
       \/ Inb(p, "s5", "pv", "unlock")
       \/ UnlockReturn(p, "unlock", 0)
       \/ UnlockReturn(p, "error", cs[p].ret)

write_acpi_value(p) ==
    /\ cs[p].fn = "write_acpi_value"
    /\ \/ Lock(p, "lock", "w0")
       \/ WaitIbf(p, "w0", "s1", "error")
       \/ Outb(p, "s1", EC_ACPI_DATA_WRITE, EC_COMMAND_PORT, "w2")
       \/ WaitIbf(p, "w2", "s3", "error")
       \/ Outb(p, "s3", cs[p].addr, EC_STATUS_PORT, "w4")
       \/ WaitIbf(p, "w4", "s5", "error")
       \/ Outb(p, "s5", cs[p].data, EC_STATUS_PORT, "unlock")
       \/ UnlockReturn(p, "unlock", 0)
       \/ UnlockReturn(p, "error", cs[p].ret)

read_gpio_status(p) ==
    /\ cs[p].fn = "read_gpio_status"
    /\ \/ Lock(p, "lock", "w0")
       \/ WaitIbf(p, "w0", "s1", "error")
       \/ Outb(p, "s1", EC_GPIO_INDEX_WRITE, EC_COMMAND_PORT, "w2")
       \/ WaitIbf(p, "w2", "s3", "error")
       \/ Outb(p, "s3", cs[p].addr, EC_STATUS_PORT, "w4")
       \/ WaitObf(p, "w4", "s5", "error")
       \/ InbIndex(p, "s5", "w6", "inval")
       \/ UnlockReturn(p, "inval", -1)
       \/ WaitIbf(p, "w6", "s7", "error")
       \/ Outb(p, "s7", EC_GPIO_STATUS_READ, EC_COMMAND_PORT, "w8")
       \/ WaitObf(p, "w8", "s9", "error")
       \/ Inb(p, "s9", "pv", "unlock")
       \/ UnlockReturn(p, "unlock", 0)
       \/ UnlockReturn(p, "error", cs[p].ret)

write_gpio_status(p) ==
    /\ cs[p].fn = "write_gpio_status"
    /\ \/ Lock(p, "lock", "w0")
       \/ WaitIbf(p, "w0", "s1", "error")
       \/ Outb(p, "s1", EC_GPIO_INDEX_WRITE, EC_COMMAND_PORT, "w2")
       \/ WaitIbf(p, "w2", "s3", "error")
       \/ Outb(p, "s3", cs[p].addr, EC_STATUS_PORT, "w4")
       \/ WaitObf(p, "w4", "s5", "error")
       \/ InbIndex(p, "s5", "w6", "inval")
       \/ UnlockReturn(p, "inval", -1)
       \/ WaitIbf(p, "w6", "s7", "error")
       \/ Outb(p, "s7", EC_GPIO_STATUS_WRITE, EC_COMMAND_PORT, "w8")
       \/ WaitIbf(p, "w8", "s9", "error")
       \/ Outb(p, "s9", cs[p].data, EC_STATUS_PORT, "unlock")
       \/ UnlockReturn(p, "unlock", 0)
       \/ UnlockReturn(p, "error", cs[p].ret)

read_gpio_dir(p) ==
    /\ cs[p].fn = "read_gpio_dir"
    /\ \/ Lock(p, "lock", "w0")
       \/ WaitIbf(p, "w0", "s1", "error")
       \/ Outb(p, "s1", EC_GPIO_INDEX_WRITE, EC_COMMAND_PORT, "w2")
       \/ WaitIbf(p, "w2", "s3", "error")
       \/ Outb(p, "s3", cs[p].addr, EC_STATUS_PORT, "w4")
       \/ WaitObf(p, "w4", "s5", "error")
       \/ InbIndex(p, "s5", "w6", "inval")
       \/ UnlockReturn(p, "inval", -1)
       \/ WaitIbf(p, "w6", "s7", "error")
       \/ Outb(p, "s7", EC_GPIO_DIR_READ, EC_COMMAND_PORT, "w8")
       \/ WaitObf(p, "w8", "s9", "error")
       \/ Inb(p, "s9", "pv", "unlock")
       \/ UnlockReturn(p, "unlock", 0)
       \/ UnlockReturn(p, "error", cs[p].ret)

write_gpio_dir(p) ==
    /\ cs[p].fn = "write_gpio_dir"
    /\ \/ Lock(p, "lock", "w0")
       \/ WaitIbf(p, "w0", "s1", "error")
       \/ Outb(p, "s1", EC_GPIO_INDEX_WRITE, EC_COMMAND_PORT, "w2")
       \/ WaitIbf(p, "w2", "s3", "error")
       \/ Outb(p, "s3", cs[p].addr, EC_STATUS_PORT, "w4")
       \/ WaitObf(p, "w4", "s5", "error")
       \/ InbIndex(p, "s5", "w6", "inval")
       \/ UnlockReturn(p, "inval", -1)
       \/ WaitIbf(p, "w6", "s7", "error")
       \/ Outb(p, "s7", EC_GPIO_DIR_WRITE, EC_COMMAND_PORT, "w8")
       \/ WaitIbf(p, "w8", "s9", "error")
       \/ Outb(p, "s9", cs[p].data, EC_STATUS_PORT, "unlock")
       \/ UnlockReturn(p, "unlock", 0)
       \/ UnlockReturn(p, "error", cs[p].ret)

\* mutation: the output byte is not cleared
LockInit_keep(p, l, n) ==
    /\ cs[p].pc = l
    /\ mutex_lock(p)
    /\ Set(p, Locked([cs[p] EXCEPT !.pc = n]))
    /\ UNCHANGED ecs

\* "mutex_lock(&lock); *pdata = 0;" at label l
LockInit(p, l, n) ==
    /\ cs[p].pc = l
    /\ mutex_lock(p)
    /\ Set(p, Locked([cs[p] EXCEPT !.pc = n, !.pv = 0]))
    /\ UNCHANGED ecs

read_onekey_status(p) ==
    /\ cs[p].fn = "read_onekey_status"
    /\ \/ LockInit(p, "lock", "w0")
       \/ WaitIbf(p, "w0", "s1", "error")
       \/ Outb(p, "s1", EC_ONE_KEY_FLAG, EC_COMMAND_PORT, "w2")
       \/ WaitIbf(p, "w2", "s3", "error")
       \/ Outb(p, "s3", cs[p].addr, EC_STATUS_PORT, "w4")
       \/ WaitObf(p, "w4", "s5", "error")
       \/ Inb(p, "s5", "pv", "unlock")
       \/ UnlockReturn(p, "unlock", 0)
       \/ UnlockReturn(p, "error", cs[p].ret)

write_onekey_status(p) ==
    /\ cs[p].fn = "write_onekey_status"
    /\ \/ Lock(p, "lock", "w0")
       \/ WaitIbf(p, "w0", "s1", "error")
       \/ Outb(p, "s1", EC_ONE_KEY_FLAG, EC_COMMAND_PORT, "w2")
       \/ WaitIbf(p, "w2", "s3", "error")
       \/ Outb(p, "s3", cs[p].addr, EC_STATUS_PORT, "unlock")
       \/ UnlockReturn(p, "unlock", 0)
       \/ UnlockReturn(p, "error", cs[p].ret)

\* mutation: the result of the last wait is not tested
ec_oem_get_status_nocheck(p) ==
    /\ cs[p].fn = "ec_oem_get_status"
    /\ \/ LockInit(p, "lock", "w0")
       \/ WaitIbf(p, "w0", "s1", "error")
       \/ Outb(p, "s1", EC_ASG_OEM, EC_COMMAND_PORT, "w2")
       \/ WaitIbf(p, "w2", "s3", "error")
       \/ Outb(p, "s3", EC_ASG_OEM_READ, EC_STATUS_PORT, "w4")
       \/ WaitIbf(p, "w4", "s5", "error")
       \/ Outb(p, "s5", cs[p].addr, EC_STATUS_PORT, "w6")
       \/ WaitObf(p, "w6", "s7", "s7")
       \/ Inb(p, "s7", "pv", "unlock")
       \/ UnlockReturn(p, "unlock", 0)
       \/ UnlockReturn(p, "error", cs[p].ret)

ec_oem_get_status(p) ==
    /\ cs[p].fn = "ec_oem_get_status"
    /\ \/ LockInit(p, "lock", "w0")
       \/ WaitIbf(p, "w0", "s1", "error")
       \/ Outb(p, "s1", EC_ASG_OEM, EC_COMMAND_PORT, "w2")
       \/ WaitIbf(p, "w2", "s3", "error")
       \/ Outb(p, "s3", EC_ASG_OEM_READ, EC_STATUS_PORT, "w4")
       \/ WaitIbf(p, "w4", "s5", "error")
       \/ Outb(p, "s5", cs[p].addr, EC_STATUS_PORT, "w6")
       \/ WaitObf(p, "w6", "s7", "error")
       \/ Inb(p, "s7", "pv", "unlock")
       \/ UnlockReturn(p, "unlock", 0)
       \/ UnlockReturn(p, "error", cs[p].ret)

ec_oem_set_status(p) ==
    /\ cs[p].fn = "ec_oem_set_status"
    /\ \/ Lock(p, "lock", "w0")
       \/ WaitIbf(p, "w0", "s1", "error")
       \/ Outb(p, "s1", EC_ASG_OEM, EC_COMMAND_PORT, "w2")
       \/ WaitIbf(p, "w2", "s3", "error")
       \/ Outb(p, "s3", EC_ASG_OEM_WRITE, EC_STATUS_PORT, "w4")
       \/ WaitIbf(p, "w4", "s5", "error")
       \/ Outb(p, "s5", cs[p].addr, EC_STATUS_PORT, "w6")
       \/ WaitIbf(p, "w6", "s7", "error")
       \/ Outb(p, "s7", cs[p].data, EC_STATUS_PORT, "unlock")
       \/ UnlockReturn(p, "unlock", 0)
       \/ UnlockReturn(p, "error", cs[p].ret)

(***************************************************************************)
(* Dynamic table enumeration                                               *)
(***************************************************************************)
TblIndex == 0..(EC_MAX_TBL_NUM - 1)

Sentinel == [DeviceID |-> 255, HWPinNumber |-> 255]

\* contents a kmalloc'ed entry may hold before it is written: the memory is
\* not initialised
Unwritten ==
    {[DeviceID |-> 0, HWPinNumber |-> 0], [DeviceID |-> 52, HWPinNumber |-> 255]}

\* "mutex_lock(&lock);" and the loop that presets every entry
\* mutation: the table is not preset
TabLock_nopreset(p) ==
    /\ cs[p].pc = "lock"
    /\ mutex_lock(p)
    /\ UNCHANGED dym_tbl
    /\ Set(p, Locked([cs[p] EXCEPT !.pc = "w0", !.idx = 0]))
    /\ UNCHANGED ecs

TabLock(p) ==
    /\ cs[p].pc = "lock"
    /\ mutex_lock(p)
    /\ dym_tbl' = [k \in TblIndex |-> Sentinel]
    /\ Set(p, Locked([cs[p] EXCEPT !.pc = "w0", !.idx = 0]))
    /\ UNCHANGED ecs

\* Steps 13 and 14, and the loop's "i++" and test
TabStore(p) ==
    /\ cs[p].pc = "s13"
    /\ \E b \in EcIn(ecs) :
         /\ dym_tbl' = [dym_tbl EXCEPT ![cs[p].idx] =
                          [DeviceID |-> b, HWPinNumber |-> cs[p].pin_tmp]]
         /\ Set(p, [cs[p] EXCEPT !.idx = @ + 1,
                                 !.pc = IF cs[p].idx + 1 < EC_MAX_TBL_NUM
                                        THEN "w0" ELSE "unlock",
                                 !.w = NoWait, !.nin = @ + 1, !.rd = Append(@, [c |-> cs[p].cmd, b |-> b]),
                              !.tr = Append(@, Ev("in", EC_STATUS_PORT, b)),
                                 !.ffacc = cs[p].ffacc \/ cs[p].ff])
    /\ ecs' = EcTake(ecs)
    /\ UNCHANGED lock

\* mutation: a pin number of 0xFF does not end the enumeration
adv_get_dynamic_tab_nopincheck(p) ==
    /\ cs[p].fn = "adv_get_dynamic_tab"
    /\ \/ TabLock(p)
       \/ WaitIbf(p, "w0", "s1", "error") /\ UNCHANGED dym_tbl
       \/ Outb(p, "s1", EC_TBL_WRITE_ITEM, EC_COMMAND_PORT, "w2") /\ UNCHANGED dym_tbl
       \/ WaitIbf(p, "w2", "s3", "error") /\ UNCHANGED dym_tbl
       \/ Outb(p, "s3", cs[p].idx, EC_STATUS_PORT, "w4") /\ UNCHANGED dym_tbl
       \/ WaitObf(p, "w4", "s5", "error") /\ UNCHANGED dym_tbl
       \/ InbIndex(p, "s5", "w6", "inval") /\ UNCHANGED dym_tbl
       \/ UnlockReturn(p, "inval", -EINVAL) /\ UNCHANGED dym_tbl
       \/ WaitIbf(p, "w6", "s7", "error") /\ UNCHANGED dym_tbl
       \/ Outb(p, "s7", EC_TBL_GET_PIN, EC_COMMAND_PORT, "w8") /\ UNCHANGED dym_tbl
       \/ WaitObf(p, "w8", "s9", "error") /\ UNCHANGED dym_tbl
       \/ Inb(p, "s9", "pin_tmp", "w10") /\ UNCHANGED dym_tbl
       \/ WaitIbf(p, "w10", "s11", "error") /\ UNCHANGED dym_tbl
       \/ /\ Outb(p, "s11", EC_TBL_GET_DEVID, EC_COMMAND_PORT, "w12")
          /\ UNCHANGED dym_tbl
       \/ WaitObf(p, "w12", "s13", "error") /\ UNCHANGED dym_tbl
       \/ TabStore(p)
       \/ UnlockReturn(p, "unlock", 0) /\ UNCHANGED dym_tbl
       \/ UnlockReturn(p, "error", cs[p].ret) /\ UNCHANGED dym_tbl

adv_get_dynamic_tab(p) ==
    /\ cs[p].fn = "adv_get_dynamic_tab"
    /\ \/ TabLock(p)
       \/ WaitIbf(p, "w0", "s1", "error") /\ UNCHANGED dym_tbl
       \/ Outb(p, "s1", EC_TBL_WRITE_ITEM, EC_COMMAND_PORT, "w2") /\ UNCHANGED dym_tbl
       \/ WaitIbf(p, "w2", "s3", "error") /\ UNCHANGED dym_tbl
       \/ Outb(p, "s3", cs[p].idx, EC_STATUS_PORT, "w4") /\ UNCHANGED dym_tbl
       \/ WaitObf(p, "w4", "s5", "error") /\ UNCHANGED dym_tbl
       \/ InbIndex(p, "s5", "w6", "inval") /\ UNCHANGED dym_tbl
       \/ UnlockReturn(p, "inval", -EINVAL) /\ UNCHANGED dym_tbl
       \/ WaitIbf(p, "w6", "s7", "error") /\ UNCHANGED dym_tbl
       \/ Outb(p, "s7", EC_TBL_GET_PIN, EC_COMMAND_PORT, "w8") /\ UNCHANGED dym_tbl
       \/ WaitObf(p, "w8", "s9", "error") /\ UNCHANGED dym_tbl
       \/ Inb(p, "s9", "pin_tmp", "w10") /\ UNCHANGED dym_tbl
       \/ WaitIbf(p, "w10", "s11", "error") /\ UNCHANGED dym_tbl
       \/ cs[p].pin_tmp = 255 /\ UnlockReturn(p, "s11", -EINVAL) /\ UNCHANGED dym_tbl
       \/ /\ cs[p].pin_tmp # 255
          /\ Outb(p, "s11", EC_TBL_GET_DEVID, EC_COMMAND_PORT, "w12")
          /\ UNCHANGED dym_tbl
       \/ WaitObf(p, "w12", "s13", "error") /\ UNCHANGED dym_tbl
       \/ TabStore(p)
       \/ UnlockReturn(p, "unlock", 0) /\ UNCHANGED dym_tbl
       \/ UnlockReturn(p, "error", cs[p].ret) /\ UNCHANGED dym_tbl

(***************************************************************************)
(* SMBus pass-through                                                      *)
(***************************************************************************)
\* the caller's record on entry to f(a, d), to resume at label n
Enter(c, f, l0, a, d, n) ==
    [c EXCEPT !.fn = f, !.pc = l0, !.stk = <<[fn |-> c.fn, pc |-> n]>> \o c.stk,
              !.addr = a, !.data = d, !.w = NoWait]

\* a step of the calling function that touches neither port nor mutex
Local(p, l, c2) ==
    /\ cs[p].pc = l
    /\ Set(p, c2)
    /\ UNCHANGED <<lock, ecs>>

\* "sm_ready = data; if (sm_ready != 0x80) goto error;" after the status read
StatusBad(c) == c.ret = 0 /\ c.data # 128

\* the caller's record after "sm_ready = data" (reached when ret = 0)
SmReady(c) == IF c.ret = 0 THEN [c EXCEPT !.sm_ready = c.data] ELSE c

\* mutation: the calling function takes the mutex itself before the call
ThenWrite_held(p, l, a, d, n) ==
    /\ cs[p].pc = l
    /\ mutex_lock(p)
    /\ Set(p, IF cs[p].ret # 0 THEN Return(cs[p], cs[p].ret)
              ELSE Enter(cs[p], "write_hw_ram", "lock", a, d, n))
    /\ UNCHANGED ecs

\* "ret = write_hw_ram(addr, data): if (ret) goto error;" of the previous
\* step, then the next call; error is "return ret"
ThenWrite(p, l, a, d, n) ==
    Local(p, l, IF cs[p].ret # 0 THEN Return(cs[p], cs[p].ret)
                ELSE Enter(cs[p], "write_hw_ram", "lock", a, d, n))

ThenRead(p, l, a, n) ==
    Local(p, l, IF cs[p].ret # 0 THEN Return(cs[p], cs[p].ret)
                ELSE Enter(cs[p], "read_hw_ram", "lock", a, cs[p].data, n))

\* the data read that follows a good status
ThenReadData(p, l, a, n) ==
    Local(p, l, IF cs[p].ret # 0 THEN Return(cs[p], cs[p].ret)
                ELSE Enter(SmReady(cs[p]), "read_hw_ram", "lock", a, cs[p].data, n))

ThenWait(p, l, n) ==
    Local(p, l, IF cs[p].ret # 0 THEN Return(cs[p], cs[p].ret)
                ELSE [Enter(cs[p], "wait_smbus_protocol_finish", "loop",
                            cs[p].addr, cs[p].data, n)
                        EXCEPT !.retry = SMBUS_RETRY])

wait_smbus_protocol_finish(p) ==
    /\ cs[p].fn = "wait_smbus_protocol_finish"
    /\ \/ Local(p, "loop",
                Enter(cs[p], "read_hw_ram", "lock", EC_SMBUS_PROTOCOL, 255, "chk"))
       \/ Local(p, "chk",
                IF cs[p].ret = 0 THEN Return(cs[p], 0)
                ELSE IF cs[p].data = 0 THEN Return(cs[p], 0)
                ELSE IF cs[p].retry > 0
                THEN [cs[p] EXCEPT !.retry = @ - 1, !.pc = "loop"]
                ELSE Return([cs[p] EXCEPT !.retry = @ - 1], -ETIMEDOUT))

\* mutation: the two data cells combined the other way round
smbus_read_word_swapped(p) ==
    /\ cs[p].fn = "smbus_read_word"
    /\ \/ Local(p, "s1", Enter(cs[p], "write_hw_ram", "lock",
                               EC_SMBUS_CHANNEL, cs[p].req.Channel, "s2"))
       \/ ThenWrite(p, "s2", EC_SMBUS_SLV_ADDR, cs[p].req.Address, "s3")
       \/ ThenWrite(p, "s3", EC_SMBUS_CMD, cs[p].req.Register, "s4")
       \/ ThenWrite(p, "s4", EC_SMBUS_PROTOCOL, SMBUS_WORD_READ, "s5")
       \/ ThenWait(p, "s5", "s5a")
       \/ ThenRead(p, "s5a", EC_SMBUS_STATUS, "s5b")
       \/ StatusBad(cs[p]) /\ Local(p, "s5b", Return(SmReady(cs[p]), cs[p].ret))
       \/ ~StatusBad(cs[p]) /\ ThenReadData(p, "s5b", EC_SMBUS_DAT_OFFSET(0), "s6a")
       \/ Local(p, "s6a",
                IF cs[p].ret # 0 THEN Return(cs[p], cs[p].ret)
                ELSE Enter([cs[p] EXCEPT !.MSB = cs[p].data], "read_hw_ram", "lock",
                           EC_SMBUS_DAT_OFFSET(1), cs[p].data, "s6b"))
       \/ Local(p, "s6b",
                IF cs[p].ret # 0 THEN Return(cs[p], cs[p].ret)
                ELSE Return([cs[p] EXCEPT !.LSB = cs[p].data,
                                          !.req.Value = cs[p].data * 256 + cs[p].MSB], 0))

smbus_read_word(p) ==
    /\ cs[p].fn = "smbus_read_word"
    /\ \/ Local(p, "s1", Enter(cs[p], "write_hw_ram", "lock",
                               EC_SMBUS_CHANNEL, cs[p].req.Channel, "s2"))
       \/ ThenWrite(p, "s2", EC_SMBUS_SLV_ADDR, cs[p].req.Address, "s3")
       \/ ThenWrite(p, "s3", EC_SMBUS_CMD, cs[p].req.Register, "s4")
       \/ ThenWrite(p, "s4", EC_SMBUS_PROTOCOL, SMBUS_WORD_READ, "s5")
       \/ ThenWait(p, "s5", "s5a")
       \/ ThenRead(p, "s5a", EC_SMBUS_STATUS, "s5b")
       \/ StatusBad(cs[p]) /\ Local(p, "s5b", Return(SmReady(cs[p]), cs[p].ret))
       \/ ~StatusBad(cs[p]) /\ ThenReadData(p, "s5b", EC_SMBUS_DAT_OFFSET(0), "s6a")
       \/ Local(p, "s6a",
                IF cs[p].ret # 0 THEN Return(cs[p], cs[p].ret)
                ELSE Enter([cs[p] EXCEPT !.MSB = cs[p].data], "read_hw_ram", "lock",
                           EC_SMBUS_DAT_OFFSET(1), cs[p].data, "s6b"))
       \/ Local(p, "s6b",
                IF cs[p].ret # 0 THEN Return(cs[p], cs[p].ret)
                ELSE Return([cs[p] EXCEPT !.LSB = cs[p].data,
                                          !.req.Value = cs[p].MSB * 256 + cs[p].data], 0))

\* mutation: the request pointer is not checked
smbus_read_byte_nocheck(p) ==
    /\ cs[p].fn = "smbus_read_byte"
    /\ \/ Local(p, "s1", Enter(cs[p], "write_hw_ram", "lock",
                               EC_SMBUS_CHANNEL, cs[p].req.Channel, "s2"))
       \/ ThenWrite(p, "s2", EC_SMBUS_SLV_ADDR, cs[p].req.Address, "s3")
       \/ ThenWrite(p, "s3", EC_SMBUS_CMD, cs[p].req.Register, "s4")
       \/ ThenWrite(p, "s4", EC_SMBUS_PROTOCOL, SMBUS_BYTE_READ, "s5")
       \/ ThenWait(p, "s5", "s5a")
       \/ ThenRead(p, "s5a", EC_SMBUS_STATUS, "s5b")
       \/ StatusBad(cs[p]) /\ Local(p, "s5b", Return(SmReady(cs[p]), cs[p].ret))
       \/ ~StatusBad(cs[p]) /\ ThenReadData(p, "s5b", EC_SMBUS_DATA, "s6")
       \/ Local(p, "s6",
                IF cs[p].ret # 0 THEN Return(cs[p], cs[p].ret)
                ELSE Return([cs[p] EXCEPT !.req.Data = cs[p].data % 256], 0))

smbus_read_byte(p) ==
    /\ cs[p].fn = "smbus_read_byte"
    /\ \/ Local(p, "s1", IF cs[p].null THEN Return(cs[p], -EINVAL)
                           ELSE Enter(cs[p], "write_hw_ram", "lock",
                                      EC_SMBUS_CHANNEL, cs[p].req.Channel, "s2"))
       \/ ThenWrite(p, "s2", EC_SMBUS_SLV_ADDR, cs[p].req.Address, "s3")
       \/ ThenWrite(p, "s3", EC_SMBUS_CMD, cs[p].req.Register, "s4")
       \/ ThenWrite(p, "s4", EC_SMBUS_PROTOCOL, SMBUS_BYTE_READ, "s5")
       \/ ThenWait(p, "s5", "s5a")
       \/ ThenRead(p, "s5a", EC_SMBUS_STATUS, "s5b")
       \/ StatusBad(cs[p]) /\ Local(p, "s5b", Return(SmReady(cs[p]), cs[p].ret))
       \/ ~StatusBad(cs[p]) /\ ThenReadData(p, "s5b", EC_SMBUS_DATA, "s6")
       \/ Local(p, "s6",
                IF cs[p].ret # 0 THEN Return(cs[p], cs[p].ret)
                ELSE Return([cs[p] EXCEPT !.req.Data = cs[p].data % 256], 0))

\* "error: mutex_unlock(&lock); return ret;" and the same two statements on
\* the success path, in a function that never took the mutex
UnlockUnheld(p, l, v) ==
    /\ cs[p].pc = l
    /\ mutex_unlock(p)
    /\ Set(p, Return(Unlocked(p, IF l = "s6b" THEN SmReady(cs[p]) ELSE cs[p]), v))
    /\ UNCHANGED ecs

\* mutation: the protocol cell is written before the data cell
smbus_write_byte_armfirst(p) ==
    /\ cs[p].fn = "smbus_write_byte"
    /\ \/ Local(p, "s1", Enter(cs[p], "write_hw_ram", "lock",
                               EC_SMBUS_CHANNEL, cs[p].req.Channel, "s2"))
       \/ cs[p].ret = 0 /\ ThenWrite(p, "s2", EC_SMBUS_SLV_ADDR, cs[p].req.Address, "s3")
       \/ cs[p].ret = 0 /\ ThenWrite(p, "s3", EC_SMBUS_CMD, cs[p].req.Register, "s4")
       \/ cs[p].ret = 0 /\ ThenWrite(p, "s4", EC_SMBUS_PROTOCOL, SMBUS_BYTE_WRITE, "s5")
       \/ cs[p].ret = 0 /\ ThenWrite(p, "s5", EC_SMBUS_DATA, cs[p].req.Data, "s6")
       \/ cs[p].ret = 0 /\ ThenWait(p, "s6", "s6a")
       \/ cs[p].ret = 0 /\ ThenRead(p, "s6a", EC_SMBUS_STATUS, "s6b")
       \/ /\ cs[p].ret # 0
          /\ \E l \in {"s2", "s3", "s4", "s5", "s6", "s6a", "s6b"} :
               UnlockUnheld(p, l, cs[p].ret)
       \/ cs[p].ret = 0 /\ UnlockUnheld(p, "s6b", cs[p].ret)

smbus_write_byte(p) ==
    /\ cs[p].fn = "smbus_write_byte"
    /\ \/ Local(p, "s1", Enter(cs[p], "write_hw_ram", "lock",
                               EC_SMBUS_CHANNEL, cs[p].req.Channel, "s2"))
       \/ cs[p].ret = 0 /\ ThenWrite(p, "s2", EC_SMBUS_SLV_ADDR, cs[p].req.Address, "s3")
       \/ cs[p].ret = 0 /\ ThenWrite(p, "s3", EC_SMBUS_CMD, cs[p].req.Register, "s4")
       \/ cs[p].ret = 0 /\ ThenWrite(p, "s4", EC_SMBUS_DATA, cs[p].req.Data, "s5")
       \/ cs[p].ret = 0 /\ ThenWrite(p, "s5", EC_SMBUS_PROTOCOL, SMBUS_BYTE_WRITE, "s6")
       \/ cs[p].ret = 0 /\ ThenWait(p, "s6", "s6a")
       \/ cs[p].ret = 0 /\ ThenRead(p, "s6a", EC_SMBUS_STATUS, "s6b")
       \/ /\ cs[p].ret # 0
          /\ \E l \in {"s2", "s3", "s4", "s5", "s6", "s6a", "s6b"} :
               UnlockUnheld(p, l, cs[p].ret)
       \/ cs[p].ret = 0 /\ UnlockUnheld(p, "s6b", cs[p].ret)

(***************************************************************************)
(* Driver initialisation                                                   *)
(***************************************************************************)
\* the results of the part of adv_ec_init_ec_data before the pin table: the
\* kmalloc of the product name may fail, and adv_ec_get_productname reads the
\* BIOS memory, not the controller, and may fail to map it or to find a name
NameResults == {0, -ENOMEM, -ENXIO, -ENODATA}

adv_ec_init_ec_data(p) ==
    /\ cs[p].fn = "adv_ec_init_ec_data"
    /\ \/ /\ \E r \in NameResults :
                Local(p, "i1", IF r # 0 THEN Return(cs[p], r)
                               ELSE [cs[p] EXCEPT !.pc = "i2"])
          /\ UNCHANGED dym_tbl
       \/ /\ Local(p, "i2", Return(cs[p], -ENOMEM))
          /\ UNCHANGED dym_tbl
       \/ /\ Local(p, "i2", Enter(cs[p], "adv_get_dynamic_tab", "lock",
                                   cs[p].addr, cs[p].data, "i3"))
          /\ dym_tbl' \in [TblIndex -> env.mem]
       \/ /\ Local(p, "i3", Return(cs[p], 0))
          /\ UNCHANGED dym_tbl

(***************************************************************************)
(* Callers.  A caller invokes one operation with arguments drawn from the  *)
(* scenario, runs it to its return, and takes the result.                  *)
(***************************************************************************)
SmbusOps == {"smbus_read_byte", "smbus_read_word", "smbus_write_byte"}

GatedOps ==
    {"read_hw_ram", "write_hw_ram", "write_hw_extend_ram", "write_hwram_command",
     "read_ad_value", "read_acpi_value", "write_acpi_value",
     "read_gpio_status", "write_gpio_status", "read_gpio_dir", "write_gpio_dir",
     "read_onekey_status", "write_onekey_status",
     "ec_oem_get_status", "ec_oem_set_status", "adv_get_dynamic_tab"}

IndexedOps ==
    {"read_ad_value", "read_gpio_status", "write_gpio_status", "read_gpio_dir",
     "write_gpio_dir", "adv_get_dynamic_tab"}

AllOps == GatedOps \cup SmbusOps

\* the initialisation run by adv_ec_probe
ProbeOps == {"adv_ec_init_ec_data"}

\* operations with a data byte argument
TakesData ==
    {"write_hw_ram", "write_hw_extend_ram", "write_hwram_command", "write_acpi_value",
     "write_gpio_status", "write_gpio_dir", "ec_oem_set_status", "smbus_write_byte"}

\* operations with an address or pin argument
TakesAddr == (GatedOps \ {"write_hwram_command", "adv_get_dynamic_tab"})

Min(S) == CHOOSE x \in S : \A y \in S : x <= y

Call(p, ops) ==
    /\ cs[p].fn = "idle"
    /\ \E op \in ops :
       \E a \in IF op \in TakesAddr THEN env.addrs ELSE {0} :
       \E d \in IF op \in TakesData THEN env.vals ELSE {Min(env.pv0)} :
       \E m \in IF op = "read_ad_value" THEN env.multis ELSE {0} :
       \E o \in env.pv0 :
       \E nl \in IF op = "smbus_read_byte" THEN env.nulls ELSE {FALSE} :
         Set(p, [IdleCaller EXCEPT
                     !.fn = op, !.op = op,
                     !.pc = IF op \in SmbusOps THEN "s1"
                           ELSE IF op \in ProbeOps THEN "i1" ELSE "lock",
                     !.addr = a, !.data = d, !.multi = m, !.pv = o,
                     !.req = [Channel |-> 2, Address |-> 152, Register |-> 5,
                              Data |-> IF op = "smbus_write_byte" THEN d ELSE o,
                              Value |-> o],
                     !.in0 = [addr |-> a, data |-> d, pv |-> o],
                     !.null = nl,
                     !.h = cs[p].h])
    /\ UNCHANGED <<lock, ecs>>

\* what the caller remembers of its finished operations: whether the last
\* one timed out, and per RAM address of the test double the byte its last
\* write_hw_ram stored (None after a failed one)
Remember(c) ==
    [prevT |-> (c.ret = -ETIMEDOUT),
     wr |-> IF env.kind = "sim" /\ c.op = "write_hw_ram"
            THEN [a \in {c.in0.addr} |-> IF c.ret = 0 THEN c.in0.data ELSE None]
                 @@ c.h.wr
            ELSE c.h.wr]

Finish(p) ==
    /\ cs[p].fn = "done"
    /\ Set(p, [IdleCaller EXCEPT !.h = Remember(cs[p])])
    /\ UNCHANGED <<lock, ecs>>

\* a step of caller p inside the driver
Step(p) ==
    \/ /\ \/ read_hw_ram(p)
          \/ write_hw_ram(p)
          \/ write_hw_extend_ram(p)
          \/ write_hwram_command(p)
          \/ read_ad_value(p)
          \/ read_acpi_value(p)
          \/ write_acpi_value(p)
          \/ read_gpio_status(p)
          \/ write_gpio_status(p)
          \/ read_gpio_dir(p)
          \/ write_gpio_dir(p)
          \/ read_onekey_status(p)
          \/ write_onekey_status(p)
          \/ ec_oem_get_status(p)
          \/ ec_oem_set_status(p)
          \/ wait_smbus_protocol_finish(p)
          \/ smbus_read_word(p)
          \/ smbus_read_byte(p)
          \/ smbus_write_byte(p)
       /\ UNCHANGED <<env, dym_tbl>>
    \/ adv_get_dynamic_tab(p) /\ UNCHANGED env
    \/ adv_ec_init_ec_data(p) /\ UNCHANGED env

Init0 ==
    /\ lock = 0
    /\ cs = [p \in AllCallers |-> IdleCaller]
    /\ ecs = [st |-> EcIdle, ram |-> [a \in env.addrs |-> 0]]
    /\ dym_tbl \in [TblIndex -> env.mem]

(***************************************************************************)
(* Scenarios.                                                              *)
(*   ScenConc  NumCallers concurrent callers of the HW-RAM accessors and   *)
(*             the SMBus byte transfers, against an arbitrary controller   *)
(*   ScenAll   one caller of every operation, against an arbitrary         *)
(*             controller (adv_get_dynamic_tab runs in probe, before the   *)
(*             sub-devices that call the other operations exist)           *)
(*   ScenSeq   one caller of every operation but the enumeration, with the *)
(*             observation fields and a richer set of bytes, against       *)
(*             controller kind k                                           *)
(*   ScenTab   the enumeration of the dynamic table, on its own and inside *)
(*             adv_ec_init_ec_data, observed                                *)
(***************************************************************************)
\* the same operations for every caller
Everyone(ops) == [p \in AllCallers |-> ops]

ConcOps == {"read_hw_ram", "write_hw_ram", "smbus_read_byte", "smbus_write_byte"}

ScenConc ==
    [callers |-> AllCallers, menu |-> Everyone(ConcOps), kind |-> "any", bytes |-> {128, 255},
     addrs |-> {5}, vals |-> {122}, multis |-> {1}, pv0 |-> {85},
     mem |-> {CHOOSE e \in Unwritten : TRUE}, nulls |-> {FALSE}, observe |-> FALSE]

ScenAll ==
    [callers |-> {1}, menu |-> Everyone(AllOps \cup ProbeOps), kind |-> "any",
     bytes |-> {128, 255},
     addrs |-> {5}, vals |-> {122}, multis |-> {1}, pv0 |-> {85},
     mem |-> Unwritten, nulls |-> BOOLEAN, observe |-> FALSE]

ScenSeq(k) ==
    [callers |-> {1}, menu |-> Everyone(AllOps \ {"adv_get_dynamic_tab"}), kind |-> k,
     bytes |-> {0, 1, 16, 52, 122, 128, 255},
     addrs |-> {5, 6}, vals |-> {0, 122}, multis |-> {1, 255}, pv0 |-> {85},
     mem |-> {CHOOSE e \in Unwritten : TRUE}, nulls |-> BOOLEAN,
     observe |-> TRUE]

ScenTab ==
    [callers |-> {1}, menu |-> Everyone({"adv_get_dynamic_tab"} \cup ProbeOps),
     kind |-> "any",
     bytes |-> {1, 52, 255},
     addrs |-> {5}, vals |-> {122}, multis |-> {1}, pv0 |-> {85},
     mem |-> Unwritten, nulls |-> {FALSE}, observe |-> TRUE]

Next ==
    \E p \in env.callers :
        \/ (Call(p, env.menu[p]) \/ Finish(p)) /\ UNCHANGED <<env, dym_tbl>>
        \/ Step(p)

\* concurrent callers, and every operation on its own
Init == env \in {ScenConc, ScenAll} /\ Init0

Spec == Init /\ [][Next]_vars

\* one caller, observed, against an arbitrary and against a responsive controller
InitSeq == env \in {ScenSeq("any"), ScenSeq("sim"), ScenTab} /\ Init0

SpecSeq == InitSeq /\ [][Next]_vars

\* the scheduler runs every caller that can run, and a caller that finds the
\* gate free again and again eventually gets it
Fairness == \A p \in AllCallers : SF_vars(Step(p))

\* all callers competing for the gate
ScenGate == [ScenConc EXCEPT !.menu = Everyone({"read_hw_ram"}), !.bytes = {128}]

\* two callers, the first in SMBus writes, whose exits unlock the mutex
\* without holding it, the second in HW-RAM reads
ScenFair ==
    [ScenConc EXCEPT !.callers = {1, 2},
                     !.menu = [p \in AllCallers |-> IF p = 1 THEN {"smbus_write_byte"}
                                                    ELSE {"read_hw_ram"}],
                     !.bytes = {128}]

\* the competing callers, and every operation on its own
InitFair == env \in {ScenGate, ScenFair, ScenAll} /\ Init0

\* the competing callers, every operation on its own, and the observed
\* single caller
InitAll ==
    /\ env \in {ScenGate, ScenFair, ScenAll, ScenSeq("any"), ScenSeq("sim"), ScenTab}
    /\ Init0

SpecAll == InitAll /\ [][Next]_vars

FairSpec == InitFair /\ [][Next]_vars /\ Fairness

Running(c) == c.fn \notin {"idle", "done"}

(***************************************************************************)
(* Positions                                                               *)
(***************************************************************************)
\* caller record c is between a mutex_lock and the mutex_unlock that matches it
InGate(c) == c.fn \in GatedOps /\ c.pc # "lock"

\* c is at a statement that reads or writes a port
AtPort(c) ==
    /\ InGate(c)
    /\ c.pc \notin {"unlock", "error", "inval"}
    /\ ~(c.fn = "adv_get_dynamic_tab" /\ c.pc = "s11" /\ c.pin_tmp = 255)

\* caller q reads or writes a port in this step
PortStep(q) == AtPort(cs[q]) /\ cs'[q] # cs[q]

\* c is inside an SMBus transaction, between two of its HW-RAM accesses: the
\* previous one succeeded and the next one is about to be called
MidTxn(c) ==
    /\ c.fn \in SmbusOps
    /\ c.ret = 0
    /\ \/ c.pc \in {"s2", "s3", "s4", "s5", "s5a"}
       \/ c.fn = "smbus_write_byte" /\ c.pc \in {"s6", "s6a"}
       \/ c.fn # "smbus_write_byte" /\ c.pc = "s5b" /\ c.data = 128
       \/ c.fn = "smbus_read_word" /\ c.pc = "s6a"

(***************************************************************************)
(* C1  Mutual exclusion on the port pair: in every reachable state at most *)
(* one caller is between an acquire and the matching release of the gate,  *)
(* and a caller in that section (where all port accesses are) holds the    *)
(* gate.                                                                   *)
(***************************************************************************)
C1_MutualExclusion ==
    /\ Cardinality({p \in env.callers : InGate(cs[p])}) <= 1
    /\ \A p \in env.callers : AtPort(cs[p]) => lock = p

(***************************************************************************)
(* C2  SMBus transaction atomicity: while a caller is inside an SMBus      *)
(* transaction, between its first HW-RAM write and its last HW-RAM access, *)
(* no other caller performs a port operation.                              *)
(***************************************************************************)
C2_SmbusAtomic ==
    [][\A p, q \in AllCallers :
         (p # q /\ {p, q} \subseteq env.callers /\ MidTxn(cs[p])) => ~PortStep(q)]_vars

(***************************************************************************)
(* C3  The gate is released on every exit path: a caller whose operation   *)
(* has returned (with success, Timeout or an invalid-index error), or that *)
(* is outside the driver, does not hold the gate, and the gate is only     *)
(* ever held by a caller inside a gated section.  So after an operation    *)
(* that timed out, a later operation acquires the gate and can succeed.    *)
(***************************************************************************)
C3_GateReleased ==
    /\ \A p \in env.callers : cs[p].fn \in {"idle", "done"} => lock # p
    /\ lock # 0 => InGate(cs[lock])

\* an operation succeeded right after one of the same caller timed out
C3_Witness ==
    \E p \in env.callers :
        /\ cs[p].fn = "done" /\ cs[p].ret = 0 /\ cs[p].op \in GatedOps
        /\ cs[p].nout > 0
        /\ cs[p].h.prevT
        /\ lock = 0

(***************************************************************************)
(* C4  Bounded wait primitives: wait_ibf returns 0 at the first poll whose *)
(* IBF bit is 0 and wait_obf at the first poll whose OBF bit is 1; each    *)
(* makes at most EC_MAX_TIMEOUT_COUNT polls and returns -ETIMEDOUT exactly *)
(* when all EC_MAX_TIMEOUT_COUNT polls saw the wrong bit; no port is       *)
(* written while waiting.                                                  *)
(***************************************************************************)
RightBit(w) == IF w.k = "ibf" THEN IBF(w.st) = 0 ELSE OBF(w.st) # 0

C4_BoundedWait ==
    \A p \in env.callers :
        LET w == cs[p].w IN
        w.k # "none" =>
            /\ 1 <= w.n /\ w.n <= EC_MAX_TIMEOUT_COUNT
            /\ RightBit(w) <=> (w.fin /\ w.r = 0)
            /\ RightBit(w) => w.bad = w.n - 1
            /\ ~RightBit(w) => w.bad = w.n
            /\ (w.fin /\ w.r # 0) <=> w.bad = EC_MAX_TIMEOUT_COUNT
            /\ w.fin => w.r \in {0, -ETIMEDOUT}
            /\ cs[p].nout = w.out0

\* a wait_obf that succeeded on its second poll, after one poll without OBF
C4_Witness ==
    \E p \in env.callers :
        LET w == cs[p].w IN
        w.k = "obf" /\ w.fin /\ w.r = 0 /\ w.n = 2 /\ w.bad = 1

(***************************************************************************)
(* C5  Every operation terminates: whatever the controller answers, also   *)
(* when it never clears IBF or never sets OBF, and with callers competing  *)
(* for the gate under fair scheduling, every invoked operation eventually  *)
(* returns; no caller blocks forever.                                      *)
(***************************************************************************)
C5_Terminates ==
    \A p \in AllCallers : Running(cs[p]) ~> (cs[p].fn = "done")

\* an operation returned Timeout while another caller was inside the driver
C5_Witness ==
    \E p, q \in env.callers :
        /\ p # q
        /\ cs[p].fn = "done" /\ cs[p].ret = -ETIMEDOUT
        /\ Running(cs[q])

(***************************************************************************)
(* C6  RAM round trip: on the responsive controller that stores HW-RAM     *)
(* writes and echoes them on reads, a read_hw_ram(A) that follows a        *)
(* successful write_hw_ram(A, V), with no write to A in between, returns   *)
(* success with data = V.                                                  *)
(***************************************************************************)
C6_RoundTrip ==
    \A p \in env.callers :
        LET c == cs[p] IN
        ( /\ env.kind = "sim"
          /\ c.fn = "done" /\ c.op = "read_hw_ram"
          /\ c.in0.addr \in DOMAIN c.h.wr
          /\ c.h.wr[c.in0.addr] # None )
        => (c.ret = 0 /\ c.data = c.h.wr[c.in0.addr])

\* address 5 read back as 122 after 122 was written to 5 and 0 to address 6
C6_Witness ==
    \E p \in env.callers :
        LET c == cs[p] IN
        /\ env.kind = "sim"
        /\ c.fn = "done" /\ c.op = "read_hw_ram" /\ c.in0.addr = 5
        /\ DOMAIN c.h.wr = {5, 6}
        /\ c.h.wr[5] = 122 /\ c.h.wr[6] = 0
        /\ c.data = 122

(***************************************************************************)
(* C7  AD read result: when the controller accepts the pin (index echo not *)
(* 0xFF) and the read completes, read_ad_value returns                     *)
(* (((MSB << 8) | LSB) & 0x3FF) * multi * 100, with LSB the byte read      *)
(* after the AD-LSB-read command and MSB the byte read after the           *)
(* AD-MSB-read command, LSB first; LSB = 0x34, MSB = 0x01, multi = 1 give  *)
(* 30800.                                                                  *)
(***************************************************************************)
C7_AdResult ==
    \A p \in env.callers :
        LET c == cs[p] IN
        (c.fn = "done" /\ c.op = "read_ad_value" /\ Len(c.rd) = 3)
        => /\ c.rd[1].c = EC_AD_INDEX_WRITE /\ c.rd[1].b # 255
           /\ c.rd[2].c = EC_AD_LSB_READ
           /\ c.rd[3].c = EC_AD_MSB_READ
           /\ c.ret = ((c.rd[3].b * 256 + c.rd[2].b) % 1024) * c.multi * 100
           /\ (c.rd[2].b = 52 /\ c.rd[3].b = 1 /\ c.multi = 1) => c.ret = 30800

\* the example of the claim, and a sample whose upper MSB bits are masked off
C7_Witness ==
    \E p \in env.callers :
        LET c == cs[p] IN
        /\ c.fn = "done" /\ c.op = "read_ad_value" /\ Len(c.rd) = 3
        /\ c.rd[2].b = 52 /\ c.rd[3].b = 1 /\ c.multi = 1 /\ c.ret = 30800

(***************************************************************************)
(* C8  Invalid index aborts immediately: in read_ad_value, the four GPIO   *)
(* operations and adv_get_dynamic_tab, once the byte read back after the   *)
(* index-select write is 0xFF, the operation makes no further port read or *)
(* write, releases the gate and returns an error.  For the                 *)
(* adv_get_dynamic_tab called by adv_ec_init_ec_data the error is the one  *)
(* that function receives.                                                 *)
(***************************************************************************)
C8_InvalidIndex ==
    \A p \in env.callers :
        LET c == cs[p] IN
        c.ff =>
            /\ c.op \in IndexedOps \cup ProbeOps
            /\ ~c.ffacc
            /\ c.rd[Len(c.rd)].b = 255
            /\ \/ c.fn \in IndexedOps /\ c.pc = "inval" /\ lock = p
               \/ c.fn = "done" /\ c.op \in IndexedOps
                  /\ c.ret \in {-1, -EINVAL} /\ lock = 0
               \/ c.fn \in ProbeOps /\ c.pc = "i3" /\ c.ret = -EINVAL /\ lock = 0
               \/ c.fn = "done" /\ c.op \in ProbeOps /\ lock = 0

\* write_gpio_status returned after its index was refused
C8_Witness ==
    \E p \in env.callers :
        LET c == cs[p] IN
        /\ c.fn = "done" /\ c.op = "write_gpio_status" /\ c.ff
        /\ c.nout = 2 /\ c.nin = 1 /\ lock = 0

(***************************************************************************)
(* C9  Partial enumeration: when the controller accepts item-select for    *)
(* indices 0..K-1, answering their pin and device-id reads, and echoes     *)
(* 0xFF on item-select for index K < EC_MAX_TBL_NUM, then after            *)
(* adv_get_dynamic_tab returns entries [0, K) hold the (device id, pin)    *)
(* pairs the controller returned, entries [K, EC_MAX_TBL_NUM) hold the     *)
(* sentinel pair (0xFF, 0xFF), and no index above K was selected.          *)
(***************************************************************************)
\* the number of entries enumerated before the refused item-select
Accepted(c) == (Len(c.rd) - 1) \div 3

C9_PartialEnumeration ==
    \A p \in env.callers :
        LET c == cs[p]
            K == Accepted(c)
        IN
        (c.fn = "done" /\ c.op = "adv_get_dynamic_tab" /\ c.ff)
        => /\ Len(c.rd) = 3 * K + 1 /\ K < EC_MAX_TBL_NUM
           /\ \A k \in TblIndex :
                IF k < K
                THEN /\ c.rd[3 * k + 1].c = EC_TBL_WRITE_ITEM /\ c.rd[3 * k + 1].b # 255
                     /\ c.rd[3 * k + 2].c = EC_TBL_GET_PIN
                     /\ c.rd[3 * k + 3].c = EC_TBL_GET_DEVID
                     /\ dym_tbl[k] = [DeviceID |-> c.rd[3 * k + 3].b,
                                      HWPinNumber |-> c.rd[3 * k + 2].b]
                ELSE dym_tbl[k] = Sentinel
           /\ c.nout = 4 * K + 2
           /\ c.ret = -EINVAL

\* index 0 answered pin 1, device 52, and index 1 was refused
C9_Witness ==
    \E p \in env.callers :
        LET c == cs[p] IN
        /\ c.fn = "done" /\ c.op = "adv_get_dynamic_tab" /\ c.ff
        /\ Accepted(c) = 1
        /\ dym_tbl[0] = [DeviceID |-> 52, HWPinNumber |-> 1]
        /\ dym_tbl[1] = Sentinel

(***************************************************************************)
(* C10  SMBus status check: in smbus_read_byte, smbus_read_word and        *)
(* smbus_write_byte, when the status cell read after the completion poll   *)
(* holds a value other than 0x80, the call returns a non-success result    *)
(* and leaves the request's Data and Value fields as they were.            *)
(***************************************************************************)
C10_StatusCheck ==
    \A p \in env.callers :
        LET c == cs[p] IN
        (c.fn = "done" /\ c.op \in SmbusOps /\ c.sm_ready \notin {None, 128})
        => /\ c.ret # 0
           /\ c.req.Value = c.in0.pv
           /\ c.req.Data = IF c.op = "smbus_write_byte" THEN c.in0.data ELSE c.in0.pv

(***************************************************************************)
(* C11  SMBus read results: when the status cell reads 0x80 and the data   *)
(* reads succeed, smbus_read_byte returns 0 with Data equal to the byte    *)
(* read from the SMBus data cell (0x7A in the example), and                *)
(* smbus_read_word returns 0 with Value = (MSB << 8) | LSB, MSB read from  *)
(* data offset 0 first and LSB from data offset 1 (0x01, 0x34 give         *)
(* 0x0134); on the responsive controller a status of 0x80 always ends in   *)
(* success.                                                                *)
(***************************************************************************)
\* the last n HW-RAM calls of c were successful reads of the cells in as
ReadLast(c, as) ==
    LET n == Len(as)
        m == Len(c.ram)
    IN  /\ m >= n
        /\ \A i \in 1..n :
             LET e == c.ram[m - n + i] IN
             e.f = "read_hw_ram" /\ e.a = as[i] /\ e.r = 0

C11_SmbusReadResults ==
    \A p \in env.callers :
        LET c == cs[p]
            m == Len(c.ram)
        IN
        (c.fn = "done" /\ c.sm_ready = 128) =>
            /\ env.kind = "sim" => c.ret = 0
            /\ (c.op = "smbus_read_byte" /\ c.ret = 0) =>
                 /\ ReadLast(c, <<EC_SMBUS_STATUS, EC_SMBUS_DATA>>)
                 /\ c.ram[m - 1].d = 128
                 /\ c.req.Data = c.ram[m].d
                 /\ c.ram[m].d = 122 => c.req.Data = 122
            /\ (c.op = "smbus_read_word" /\ c.ret = 0) =>
                 /\ ReadLast(c, <<EC_SMBUS_STATUS, EC_SMBUS_DAT_OFFSET(0),
                                  EC_SMBUS_DAT_OFFSET(1)>>)
                 /\ c.ram[m - 2].d = 128
                 /\ c.req.Value = c.ram[m - 1].d * 256 + c.ram[m].d
                 /\ (c.ram[m - 1].d = 1 /\ c.ram[m].d = 52) => c.req.Value = 308

\* the word example: offset 0 read 0x01, offset 1 read 0x34, Value 0x0134
C11_Witness ==
    \E p \in env.callers :
        LET c == cs[p] IN
        /\ c.fn = "done" /\ c.op = "smbus_read_word" /\ c.ret = 0
        /\ c.sm_ready = 128
        /\ ReadLast(c, <<EC_SMBUS_STATUS, EC_SMBUS_DAT_OFFSET(0), EC_SMBUS_DAT_OFFSET(1)>>)
        /\ c.ram[Len(c.ram) - 1].d = 1 /\ c.ram[Len(c.ram)].d = 52
        /\ c.req.Value = 308

(***************************************************************************)
(* C12  SMBus completion poll: once the protocol cell is armed, the status *)
(* cell is read only after a read of the protocol cell has returned 0      *)
(* (idle); when no read of the protocol cell returns 0 within the retry    *)
(* budget, the operation fails with -ETIMEDOUT and neither the status cell *)
(* nor a data cell is read.                                                *)
(***************************************************************************)
\* the positions in the HW-RAM calls of c at which cell a was read
ReadsOf(c, a) == {i \in 1..Len(c.ram) : c.ram[i].f = "read_hw_ram" /\ c.ram[i].a = a}

\* the positions at which the protocol cell was read as 0
IdleSeen(c) == {i \in ReadsOf(c, EC_SMBUS_PROTOCOL) : c.ram[i].r = 0 /\ c.ram[i].d = 0}

\* the protocol cell was written successfully
ArmedIn(c) ==
    \E i \in 1..Len(c.ram) :
        c.ram[i].f = "write_hw_ram" /\ c.ram[i].a = EC_SMBUS_PROTOCOL /\ c.ram[i].r = 0

DataCells == {EC_SMBUS_STATUS, EC_SMBUS_DATA, EC_SMBUS_DAT_OFFSET(0), EC_SMBUS_DAT_OFFSET(1)}

C12_CompletionPoll ==
    \A p \in env.callers :
        LET c == cs[p] IN
        c.op \in SmbusOps =>
            /\ \A i \in ReadsOf(c, EC_SMBUS_STATUS) : \E j \in IdleSeen(c) : j < i
            /\ (c.fn = "done" /\ ArmedIn(c) /\ IdleSeen(c) = {}) =>
                 /\ c.ret = -ETIMEDOUT
                 /\ \A a \in DataCells : ReadsOf(c, a) = {}

(***************************************************************************)
(* C13  SMBus abort on first failure: in smbus_read_byte, smbus_read_word  *)
(* and smbus_write_byte, a HW-RAM access that fails (a cell write, a read  *)
(* of the protocol cell during the completion poll, the status read or a   *)
(* data read) is the last HW-RAM access of the transaction, and the        *)
(* transaction returns that access's error.                                *)
(***************************************************************************)
C13_AbortOnFirstFailure ==
    \A p \in env.callers :
        LET c == cs[p] IN
        c.op \in SmbusOps =>
            \A i \in 1..Len(c.ram) :
                c.ram[i].r # 0 =>
                    /\ i = Len(c.ram)
                    /\ c.fn = "done" => c.ret = c.ram[i].r

(***************************************************************************)
(* C14  Handshake discipline: in every operation and on every run, each    *)
(* byte written to a port directly follows a successful wait_ibf, each     *)
(* byte read from the data port directly follows a successful wait_obf,    *)
(* and once a wait has failed the operation performs no further port write *)
(* or data read.                                                           *)
(***************************************************************************)
FailedWait(e) == e.k \in {"ibf", "obf"} /\ e.v # 0

\* every port write and data read directly follows its successful wait, and
\* a failed wait is directly followed by the release of the gate
HandshakeInSection(tr) ==
    \A i \in 1..Len(tr) :
        /\ tr[i].k = "out" => i > 1 /\ tr[i - 1] = Ev("ibf", EC_COMMAND_PORT, 0)
        /\ tr[i].k = "in" => i > 1 /\ tr[i - 1] = Ev("obf", EC_COMMAND_PORT, 0)
        /\ FailedWait(tr[i]) => i = Len(tr) \/ tr[i + 1].k = "unlock"

\* no port write or data read comes after a failed wait
NoPortAfterFailedWait(tr) ==
    \A i, j \in 1..Len(tr) :
        (i < j /\ FailedWait(tr[i])) => tr[j].k \notin {"out", "in"}

C14_Handshake ==
    \A p \in env.callers :
        HandshakeInSection(cs[p].tr) /\ NoPortAfterFailedWait(cs[p].tr)

(***************************************************************************)
(* C15  A NULL request is rejected before any effect: smbus_read_byte      *)
(* called with a null request returns -EINVAL without taking the gate and  *)
(* without any port read or write.                                         *)
(***************************************************************************)
C15_NullRequest ==
    \A p \in env.callers :
        LET c == cs[p] IN
        (c.op = "smbus_read_byte" /\ c.null) =>
            /\ c.tr = <<>> /\ c.ram = <<>> /\ c.nout = 0 /\ c.nin = 0
            /\ lock # p
            /\ c.fn = "smbus_read_byte" \/ (c.fn = "done" /\ c.ret = -EINVAL)
            /\ c.req = [Channel |-> 2, Address |-> 152, Register |-> 5,
                        Data |-> c.in0.pv, Value |-> c.in0.pv]

\* the call with a null request has returned
C15_Witness ==
    \E p \in env.callers :
        LET c == cs[p] IN
        c.fn = "done" /\ c.op = "smbus_read_byte" /\ c.null /\ c.ret = -EINVAL

(***************************************************************************)
(* C16  Prefix-on-abort for the single-gate transactions: in every state   *)
(* of a run of read_hw_ram, write_hw_ram, write_hw_extend_ram,             *)
(* read/write_acpi_value, read/write_gpio_status, read/write_gpio_dir,     *)
(* read_ad_value, read/write_onekey_status or ec_oem_get/set_status, the   *)
(* port writes and data reads performed so far are a prefix of the         *)
(* operation's fixed success sequence; the operation reports success only  *)
(* if the whole sequence was performed; and when it returns Timeout, its   *)
(* k-th wait being the one that failed, exactly the first k-1 port         *)
(* operations were issued; a failed wait is the last wait of the run,      *)
(* nothing but the unlock follows it, the operation then returns Timeout   *)
(* and the gate is released.                                               *)
(***************************************************************************)
SingleGateOps == GatedOps \ {"write_hwram_command", "adv_get_dynamic_tab"}

\* a port write and a read of the data port, as they appear in a trace with
\* the byte read left out
Wr(port, v) == Ev("out", port, v)
Rd == Ev("in", EC_STATUS_PORT, 0)

\* the port operations of a run of op(a, d) in which no wait fails and no
\* index is refused, in program order
SuccessSeq(op, a, d) ==
    CASE op = "read_hw_ram" ->
           <<Wr(EC_COMMAND_PORT, EC_HW_RAM_READ), Wr(EC_STATUS_PORT, a), Rd>>
      [] op = "write_hw_ram" ->
           <<Wr(EC_COMMAND_PORT, EC_HW_RAM_WRITE), Wr(EC_STATUS_PORT, a),
             Wr(EC_STATUS_PORT, d)>>
      [] op = "write_hw_extend_ram" ->
           <<Wr(EC_COMMAND_PORT, EC_HW_EXTEND_RAM_WRITE), Wr(EC_STATUS_PORT, a),
             Wr(EC_STATUS_PORT, d)>>
      [] op = "read_ad_value" ->
           <<Wr(EC_COMMAND_PORT, EC_AD_INDEX_WRITE), Wr(EC_STATUS_PORT, a), Rd,
             Wr(EC_COMMAND_PORT, EC_AD_LSB_READ), Rd,
             Wr(EC_COMMAND_PORT, EC_AD_MSB_READ), Rd>>
      [] op = "read_acpi_value" ->
           <<Wr(EC_COMMAND_PORT, EC_ACPI_RAM_READ), Wr(EC_STATUS_PORT, a), Rd>>
      [] op = "write_acpi_value" ->
           <<Wr(EC_COMMAND_PORT, EC_ACPI_DATA_WRITE), Wr(EC_STATUS_PORT, a),
             Wr(EC_STATUS_PORT, d)>>
      [] op = "read_gpio_status" ->
           <<Wr(EC_COMMAND_PORT, EC_GPIO_INDEX_WRITE), Wr(EC_STATUS_PORT, a), Rd,
             Wr(EC_COMMAND_PORT, EC_GPIO_STATUS_READ), Rd>>
      [] op = "write_gpio_status" ->
           <<Wr(EC_COMMAND_PORT, EC_GPIO_INDEX_WRITE), Wr(EC_STATUS_PORT, a), Rd,
             Wr(EC_COMMAND_PORT, EC_GPIO_STATUS_WRITE), Wr(EC_STATUS_PORT, d)>>
      [] op = "read_gpio_dir" ->
           <<Wr(EC_COMMAND_PORT, EC_GPIO_INDEX_WRITE), Wr(EC_STATUS_PORT, a), Rd,
             Wr(EC_COMMAND_PORT, EC_GPIO_DIR_READ), Rd>>
      [] op = "write_gpio_dir" ->
           <<Wr(EC_COMMAND_PORT, EC_GPIO_INDEX_WRITE), Wr(EC_STATUS_PORT, a), Rd,
             Wr(EC_COMMAND_PORT, EC_GPIO_DIR_WRITE), Wr(EC_STATUS_PORT, d)>>
      [] op = "read_onekey_status" ->
           <<Wr(EC_COMMAND_PORT, EC_ONE_KEY_FLAG), Wr(EC_STATUS_PORT, a), Rd>>
      [] op = "write_onekey_status" ->
           <<Wr(EC_COMMAND_PORT, EC_ONE_KEY_FLAG), Wr(EC_STATUS_PORT, a)>>
      [] op = "ec_oem_get_status" ->
           <<Wr(EC_COMMAND_PORT, EC_ASG_OEM), Wr(EC_STATUS_PORT, EC_ASG_OEM_READ),
             Wr(EC_STATUS_PORT, a), Rd>>
      [] op = "ec_oem_set_status" ->
           <<Wr(EC_COMMAND_PORT, EC_ASG_OEM), Wr(EC_STATUS_PORT, EC_ASG_OEM_WRITE),
             Wr(EC_STATUS_PORT, a), Wr(EC_STATUS_PORT, d)>>
      [] OTHER -> <<>>

\* the port writes and data reads of a trace, the bytes read left out
PortOps(tr) ==
    LET s == SelectSeq(tr, LAMBDA e : e.k \in {"out", "in"})
    IN  [i \in 1..Len(s) |-> IF s[i].k = "in" THEN Rd ELSE s[i]]

\* the finished waits of a trace
Waits(tr) == SelectSeq(tr, LAMBDA e : e.k \in {"ibf", "obf"})

IsPrefix(s, t) == Len(s) <= Len(t) /\ s = SubSeq(t, 1, Len(s))

\* the operation of record c reported success
Succeeded(c) ==
    c.fn = "done" /\ (IF c.op = "read_ad_value" THEN c.ret >= 0 ELSE c.ret = 0)

C16_PrefixOnAbort ==
    \A p \in env.callers :
        LET c == cs[p]
            full == SuccessSeq(c.op, c.in0.addr, c.in0.data)
            n == Len(c.tr)
            k == Len(Waits(c.tr))
        IN  (env.observe /\ c.op \in SingleGateOps) =>
              /\ IsPrefix(PortOps(c.tr), full)
              /\ Succeeded(c) => PortOps(c.tr) = full
              /\ (c.fn = "done" /\ c.ret = -ETIMEDOUT) =>
                    n >= 3 /\ FailedWait(c.tr[n - 1])
              /\ \A j \in 1..n :
                    FailedWait(c.tr[j]) =>
                      /\ k = Len(Waits(SubSeq(c.tr, 1, j)))
                      /\ PortOps(c.tr) = SubSeq(full, 1, k - 1)
                      /\ j >= n - 1
                      /\ c.fn = "done" =>
                            /\ c.ret = -ETIMEDOUT
                            /\ j = n - 1
                            /\ c.tr[n] = Ev("unlock", "", 1)
                            /\ lock # p

\* write_gpio_status whose fourth wait timed out after the index was accepted
C16_Witness ==
    \E p \in env.callers :
        /\ env.observe
        /\ cs[p].fn = "done"
        /\ cs[p].op = "write_gpio_status"
        /\ cs[p].ret = -ETIMEDOUT
        /\ Len(Waits(cs[p].tr)) = 4
        /\ Len(PortOps(cs[p].tr)) = 3
        /\ lock = 0

(***************************************************************************)
(* C17  SMBus step order: the HW-RAM cells an SMBus transaction has        *)
(* written so far are a prefix of channel, slave address, command, (for    *)
(* smbus_write_byte only) data, protocol, each with the request's byte and *)
(* the protocol cell with the mode code of the operation; no cell is       *)
(* written after the first cell read; a read transaction never writes the  *)
(* data cell; smbus_write_byte reads only the protocol and status cells,   *)
(* the status cell last.  On a responsive controller every transaction     *)
(* performs the whole write sequence, so the protocol cell is written last *)
(* and exactly once.                                                       *)
(***************************************************************************)
\* the mode code an operation writes to the protocol cell
ModeCode(op) ==
    CASE op = "smbus_read_byte" -> SMBUS_BYTE_READ
      [] op = "smbus_read_word" -> SMBUS_WORD_READ
      [] op = "smbus_write_byte" -> SMBUS_BYTE_WRITE

\* a cell write as it appears in the list of cell writes
Cell(a, d) == [a |-> a, d |-> d]

\* the cell writes of operation op on request req, in program order
SmbusWrites(op, req) ==
    <<Cell(EC_SMBUS_CHANNEL, req.Channel), Cell(EC_SMBUS_SLV_ADDR, req.Address),
      Cell(EC_SMBUS_CMD, req.Register)>>
    \o (IF op = "smbus_write_byte" THEN <<Cell(EC_SMBUS_DATA, req.Data)>> ELSE <<>>)
    \o <<Cell(EC_SMBUS_PROTOCOL, ModeCode(op))>>

\* the cell writes among the HW-RAM calls ram
WritesOf(ram) ==
    LET s == SelectSeq(ram, LAMBDA e : e.f = "write_hw_ram")
    IN  [i \in 1..Len(s) |-> Cell(s[i].a, s[i].d)]

C17_SmbusStepOrder ==
    \A p \in env.callers :
        LET c == cs[p]
            full == SmbusWrites(c.op, c.req)
            m == Len(c.ram)
        IN  (env.observe /\ c.op \in SmbusOps /\ ~c.null) =>
              /\ IsPrefix(WritesOf(c.ram), full)
              /\ \A i \in 1..m : \A j \in i..m :
                    c.ram[i].f = "read_hw_ram" => c.ram[j].f = "read_hw_ram"
              /\ c.op # "smbus_write_byte" =>
                    \A i \in 1..m : ~(c.ram[i].f = "write_hw_ram" /\ c.ram[i].a = EC_SMBUS_DATA)
              /\ c.op = "smbus_write_byte" =>
                    \A i \in 1..m :
                        c.ram[i].f = "read_hw_ram" =>
                          /\ c.ram[i].a \in {EC_SMBUS_PROTOCOL, EC_SMBUS_STATUS}
                          /\ c.ram[i].a = EC_SMBUS_STATUS => i = m
              /\ (env.kind = "sim" /\ c.fn = "done") =>
                    /\ WritesOf(c.ram) = full
                    /\ Cardinality(ReadsOf(c, EC_SMBUS_PROTOCOL)) = 1
                    /\ Cardinality(ReadsOf(c, EC_SMBUS_STATUS)) = 1
                    /\ c.op = "smbus_write_byte" => m = Len(full) + 2

\* a byte write on the responsive controller that went through all its steps
C17_Witness ==
    \E p \in env.callers :
        /\ env.observe
        /\ env.kind = "sim"
        /\ cs[p].fn = "done"
        /\ cs[p].op = "smbus_write_byte"
        /\ cs[p].ret = 0
        /\ Len(WritesOf(cs[p].ram)) = 5
        /\ cs[p].ram[5] = [f |-> "write_hw_ram", a |-> EC_SMBUS_PROTOCOL,
                           d |-> SMBUS_BYTE_WRITE, r |-> 0]

(***************************************************************************)
(* C18  SMBus poll budget: wait_smbus_protocol_finish makes at most        *)
(* SMBUS_RETRY (1000 in the source) reads of the protocol cell, and it     *)
(* returns Timeout only after SMBUS_RETRY reads none of which read 0.      *)
(***************************************************************************)
\* the completion poll of record c returned -ETIMEDOUT: the operation ended
\* with that error and its last HW-RAM call was a read of the protocol cell
PollTimedOut(c) ==
    /\ c.fn = "done"
    /\ c.ret = -ETIMEDOUT
    /\ c.ram # <<>>
    /\ Len(c.ram) \in ReadsOf(c, EC_SMBUS_PROTOCOL)

C18_PollBudget ==
    \A p \in env.callers :
        LET c == cs[p]
        IN  (env.observe /\ c.op \in SmbusOps) =>
              /\ Cardinality(ReadsOf(c, EC_SMBUS_PROTOCOL)) <= SMBUS_RETRY
              /\ PollTimedOut(c) =>
                    /\ Cardinality(ReadsOf(c, EC_SMBUS_PROTOCOL)) >= SMBUS_RETRY
                    /\ IdleSeen(c) = {}

(***************************************************************************)
(* C19  Zero-initialised output on failure: when read_onekey_status or     *)
(* ec_oem_get_status returns Timeout, the caller's output byte is 0        *)
(* whatever it held before the call; when it returns 0 the output byte is  *)
(* the byte read from the data port.  These are the only two results.      *)
(***************************************************************************)
ZeroInitOps == {"read_onekey_status", "ec_oem_get_status"}

\* the bytes read from the data port in trace tr, in order
BytesRead(tr) ==
    LET s == SelectSeq(tr, LAMBDA e : e.k = "in")
    IN  [i \in 1..Len(s) |-> s[i].v]

C19_ZeroInitOutput ==
    \A p \in env.callers :
        LET c == cs[p]
        IN  (env.observe /\ c.op \in ZeroInitOps /\ c.fn = "done") =>
              /\ c.ret \in {0, -ETIMEDOUT}
              /\ c.ret = -ETIMEDOUT => c.pv = 0 /\ BytesRead(c.tr) = <<>>
              /\ c.ret = 0 => BytesRead(c.tr) = <<c.pv>>

\* ec_oem_get_status timed out at its last wait; the output byte held 0x55
C19_Witness ==
    \E p \in env.callers :
        /\ env.observe
        /\ cs[p].fn = "done"
        /\ cs[p].op = "ec_oem_get_status"
        /\ cs[p].ret = -ETIMEDOUT
        /\ cs[p].in0.pv = 85
        /\ cs[p].pv = 0
        /\ Len(Waits(cs[p].tr)) = 4

(***************************************************************************)
(* C20  No nested acquisition, no deadlock: no caller is at a mutex_lock   *)
(* while it owns the mutex (the SMBus functions and                        *)
(* wait_smbus_protocol_finish call read_hw_ram and write_hw_ram only while *)
(* not holding it, adv_get_dynamic_tab does its port accesses inline under *)
(* its one hold); a caller's lock and unlock events alternate; the mutex   *)
(* is owned only by a caller inside its section; and in no state is every  *)
(* running caller blocked at a mutex_lock.                                 *)
(***************************************************************************)
\* record c is at a mutex_lock statement
AtLock(c) == Running(c) /\ c.pc = "lock"

\* caller p is at a mutex_lock that cannot return in this state
Blocked(p) == AtLock(cs[p]) /\ lock # 0

\* the lock and unlock events of a trace
Gates(tr) == SelectSeq(tr, LAMBDA e : e.k \in {"lock", "unlock"})

C20_NoNestedNoDeadlock ==
    LET active == {p \in env.callers : Running(cs[p])}
    IN  /\ \A p \in env.callers :
              /\ AtLock(cs[p]) => lock # p
              /\ \A i \in 1..Len(Gates(cs[p].tr)) - 1 :
                    Gates(cs[p].tr)[i].k = "lock" => Gates(cs[p].tr)[i + 1].k = "unlock"
        /\ lock # 0 => lock \in active /\ InGate(cs[lock])
        /\ active # {} => \E p \in active : ~Blocked(p)

\* a caller inside an SMBus operation waits at the mutex_lock of its
\* write_hw_ram while another caller is inside read_hw_ram
C20_Witness ==
    \E p, q \in env.callers :
        /\ p # q
        /\ Blocked(p)
        /\ cs[p].op \in SmbusOps
        /\ cs[p].fn = "write_hw_ram"
        /\ lock = q
        /\ cs[q].fn = "read_hw_ram"

(***************************************************************************)
(* C21  Lock balance: every mutex_unlock is made by the caller that owns   *)
(* the mutex at that moment, and an operation that has returned has made   *)
(* as many mutex_unlock calls as mutex_lock calls; no operation unlocks a  *)
(* mutex that is free or owned by another caller.                          *)
(***************************************************************************)
\* the number of events of kind k among the lock and unlock events of tr
CountOf(tr, k) == Len(SelectSeq(tr, LAMBDA e : e.k = k))

\* the mutex_unlock calls of tr made while the caller was not the owner
UnownedUnlocks(tr) == SelectSeq(tr, LAMBDA e : e.k = "unlock" /\ e.v = 0)

C21_LockBalance ==
    \A p \in env.callers :
        LET c == cs[p]
        IN  env.observe =>
              /\ UnownedUnlocks(c.tr) = <<>>
              /\ CountOf(c.tr, "unlock") <= CountOf(c.tr, "lock")
              /\ c.fn = "done" => CountOf(c.tr, "unlock") = CountOf(c.tr, "lock")

(***************************************************************************)
(* C22  Dynamic table well-formedness: in every state of                   *)
(* adv_get_dynamic_tab after its preset loop, and after its return         *)
(* whether by success, by Timeout at any wait, by a refused item-select or *)
(* by a pin number of 0xFF at index K, each entry is the sentinel pair     *)
(* (0xFF, 0xFF) or has a HWPinNumber other than 0xFF; the entries [0, K)   *)
(* of the indices whose device id has been read hold the pin and device id *)
(* read for them, and the entries [K, EC_MAX_TBL_NUM) hold the sentinel    *)
(* pair, so the entries that are not the sentinel form a prefix.           *)
(***************************************************************************)
\* record c is past the preset loop of adv_get_dynamic_tab, or has returned
\* from it
PastPreset(c) ==
    /\ c.op = "adv_get_dynamic_tab"
    /\ \/ c.fn = "done"
       \/ c.fn = "adv_get_dynamic_tab" /\ c.pc # "lock"

\* the number of indices whose three replies (echo, pin, device id) were read
Stored(c) == Len(c.rd) \div 3

TabCalled(c) ==
    /\ c.op = "adv_ec_init_ec_data"
    /\ c.fn = "done" \/ (c.fn = "adv_ec_init_ec_data" /\ c.pc = "i3")
    /\ CountOf(c.tr, "lock") = 1

\* the error the enumeration of record c ended with: 0 when every index was
\* stored, Timeout when a wait failed, InvalidIndex on a reply of 0xFF
TabError(c) ==
    IF Stored(c) = EC_MAX_TBL_NUM THEN 0
    ELSE IF \E i \in 1..Len(c.tr) : FailedWait(c.tr[i]) THEN -ETIMEDOUT
    ELSE -EINVAL

C23_EnumErrorPropagated ==
    \A p \in env.callers :
        LET c == cs[p]
        IN  (env.observe /\ TabCalled(c)) =>
              /\ c.fn # "done" => c.ret = TabError(c)
              /\ c.fn = "done" => c.ret = TabError(c)

(***************************************************************************)
(* C24  Output untouched on failure: when read_hw_ram, read_acpi_value,    *)
(* read_gpio_status or read_gpio_dir returns an error (Timeout at any      *)
(* wait, or -1 for a refused pin of the GPIO reads) the caller's output    *)
(* byte is what it was before the call.  So in wait_smbus_protocol_finish  *)
(* a failed read_hw_ram leaves the local data at its preset 0xFF, and a    *)
(* poll whose last read failed never reports an idle protocol cell: the    *)
(* SMBus operation goes on with Timeout.                                   *)
(***************************************************************************)
\* the reads with an output byte that is written only by the final inb
PlainReads == {"read_hw_ram", "read_acpi_value", "read_gpio_status", "read_gpio_dir"}

\* the output byte of record c and what it held before the call: read_hw_ram
\* writes through data, the others through pvalue
OutByte(c) == IF c.op = "read_hw_ram" THEN c.data ELSE c.pv
OutByte0(c) == IF c.op = "read_hw_ram" THEN c.in0.data ELSE c.in0.pv

\* the last HW-RAM call of record c was a failed read of the protocol cell
PollReadFailed(c) ==
    /\ c.ram # <<>>
    /\ Len(c.ram) \in ReadsOf(c, EC_SMBUS_PROTOCOL)
    /\ c.ram[Len(c.ram)].r # 0

C24_OutputUntouched ==
    \A p \in env.callers :
        LET c == cs[p]
        IN  env.observe =>
              /\ (c.fn = "done" /\ c.op \in PlainReads /\ c.ret # 0) =>
                    /\ OutByte(c) = OutByte0(c)
                    /\ c.ret \in {-ETIMEDOUT, -1}
              /\ \A i \in ReadsOf(c, EC_SMBUS_PROTOCOL) :
                    c.ram[i].r # 0 => c.ram[i].d = 255
              /\ (c.fn = "wait_smbus_protocol_finish" /\ c.pc = "chk" /\ c.ret # 0) =>
                    c.data = 255
              /\ (PollReadFailed(c) /\ c.fn \in SmbusOps \cup {"done"}) =>
                    c.ret = -ETIMEDOUT

\* read_gpio_status refused the pin; the output byte still holds 0x55
C24_Witness ==
    \E p \in env.callers :
        /\ env.observe
        /\ cs[p].fn = "done"
        /\ cs[p].op = "read_gpio_status"
        /\ cs[p].ret = -1
        /\ cs[p].in0.pv = 85
        /\ cs[p].pv = 85
        /\ BytesRead(cs[p].tr) = <<255>>

(***************************************************************************)
(* C25  AD result and errors are distinguishable: for every pin, every     *)
(* 8-bit multiplier and all bytes the controller may reply, the value      *)
(* computed for a sample is in [0, 1023 * 255 * 100] and so does not       *)
(* overflow the 32-bit int it is returned in; a read_ad_value that read    *)
(* its three bytes returns that value, and every other one returns -1      *)
(* (refused pin) or Timeout, both negative.  So a result is non-negative   *)
(* exactly when it is a sample.                                            *)
(***************************************************************************)
\* the 8-bit values
Bytes == 0..255

\* the largest sample: the 10-bit value 1023 with multiplier 255
AdMax == 1023 * 255 * 100

\* the value computed for any two bytes and any multiplier is a sample: any
\* two bytes give a 10-bit value, and any 10-bit value scaled by any
\* multiplier is in range
AdInRange ==
    /\ \A MSB \in Bytes : \A LSB \in Bytes : Sample10(MSB, LSB) \in 0..1023
    /\ \A v \in 0..1023 : \A multi \in Bytes : Scaled(v, multi) \in 0..AdMax

C25_AdDistinguishable ==
    /\ AdInRange
    /\ \A p \in env.callers :
          LET c == cs[p]
          IN  (env.observe /\ c.fn = "done" /\ c.op = "read_ad_value") =>
                IF Len(c.rd) = 3
                THEN /\ c.ret = AdValue(c.rd[3].b, c.rd[2].b, c.multi)
                     /\ c.ret \in 0..AdMax
                ELSE /\ c.ret \in {-1, -ETIMEDOUT}
                     /\ c.ret < 0

\* the largest sample was returned
C25_Witness ==
    \E p \in env.callers :
        /\ env.observe
        /\ cs[p].fn = "done"
        /\ cs[p].op = "read_ad_value"
        /\ Len(cs[p].rd) = 3
        /\ cs[p].multi = 255
        /\ cs[p].ret = AdMax

====
